---- MODULE Spec2Model ----
(***************************************************************************)
(* Model of the movie search service: the query builders of the GraphQL    *)
(* resolvers, the REST routes and SearchService, the pagination            *)
(* arithmetic, the facet and dashboard aggregations, and the ingestion     *)
(* path (cleanse_record, index_document) that writes the documents the     *)
(* service reads back.                                                     *)
(*                                                                         *)
(* Text is a sequence of atoms.  An atom is a TLA+ string: one character   *)
(* where the code looks at characters (free text, genres, numbers read     *)
(* from the store), a whole literal where it does not.  Flatten gives the  *)
(* text an atom sequence stands for.                                       *)
(*                                                                         *)
(* An Optional value is <<>> (None) or <<v>>.  Ratings are in tenths.      *)
(***************************************************************************)
EXTENDS Integers, Sequences, FiniteSets, TLC

VARIABLES store, resp, inflight

vars == <<store, resp, inflight>>

----------------------------------------------------------------------------
(* Bounds of the model *)

MaxDocs == 3

MaxPage == 3

\* the requests that may be in flight at once
MaxTasks == 2

----------------------------------------------------------------------------
(* Optional values and Python truthiness *)

None == <<>>

Some(v) == <<v>>

\* `if x:` for an Optional[str] or Optional[List]: not None and not empty
TruthySeq(o) == o # <<>> /\ o[1] # <<>>

\* `if x:` for an Optional[int] or Optional[float]: not None and not zero
TruthyNum(o) == o # <<>> /\ o[1] # 0

----------------------------------------------------------------------------
(* Text *)

\* Body of v: v is computed where it is passed and named inside Body
Bind(v, Body(_)) == Body(v)

DQ == "\""

SQ == "'"

BS == "\\"

RECURSIVE Flatten(_)
Flatten(s) == IF s = <<>> THEN "" ELSE Head(s) \o Flatten(Tail(s))

\* sep.join(parts) for a list of texts
RECURSIVE Join(_, _)
Join(parts, sep) ==
  IF parts = <<>> THEN <<>>
  ELSE IF Len(parts) = 1 THEN parts[1]
  ELSE parts[1] \o sep \o Join(Tail(parts), sep)

\* s.replace(c, r) for a one-character pattern c
RECURSIVE Replace(_, _, _)
Replace(s, c, r) ==
  IF s = <<>> THEN <<>>
  ELSE (IF Head(s) = c THEN r ELSE <<Head(s)>>) \o Replace(Tail(s), c, r)

\* chars.strip() for blanks
RECURSIVE LStrip(_)
LStrip(s) == IF s # <<>> /\ Head(s) = " " THEN LStrip(Tail(s)) ELSE s

RECURSIVE RStrip(_)
RStrip(s) ==
  IF s # <<>> /\ s[Len(s)] = " " THEN RStrip(SubSeq(s, 1, Len(s) - 1)) ELSE s

Strip(s) == RStrip(LStrip(s))

\* s.split(sep) for a separator of one or two atoms; "".split(sep) is [""]
RECURSIVE SplitFrom(_, _, _)
SplitFrom(s, sep, cur) ==
  IF s = <<>> THEN <<cur>>
  ELSE IF Len(s) >= Len(sep) /\ SubSeq(s, 1, Len(sep)) = sep
       THEN <<cur>> \o SplitFrom(SubSeq(s, Len(sep) + 1, Len(s)), sep, <<>>)
       ELSE SplitFrom(Tail(s), sep, Append(cur, Head(s)))

Split(s, sep) == SplitFrom(s, sep, <<>>)

Digits == <<"0", "1", "2", "3", "4", "5", "6", "7", "8", "9">>

DigitVal(c) == CHOOSE d \in 0..9 : Digits[d + 1] = c

IsDigit(c) == \E d \in 0..9 : Digits[d + 1] = c

RECURSIVE NatChars(_)
NatChars(n) == IF n < 10 THEN <<Digits[n + 1]>> ELSE NatChars(n \div 10) \o <<Digits[(n % 10) + 1]>>

\* str(n) for an int, character by character
IntChars(n) == IF n < 0 THEN <<"-">> \o NatChars(-n) ELSE NatChars(n)

\* str(x) for a float given in tenths: 75 is "7.5", 0 is "0.0"
FloatChars(t) == NatChars(t \div 10) \o <<".">> \o NatChars(t % 10)

RECURSIVE NatVal(_)
NatVal(s) == IF s = <<>> THEN 0 ELSE NatVal(SubSeq(s, 1, Len(s) - 1)) * 10 + DigitVal(s[Len(s)])

AllDigits(s) == s # <<>> /\ \A i \in 1..Len(s) : IsDigit(s[i])

\* int(s): None stands for ValueError.  Blanks around the number and one
\* sign are accepted, as Python does.
ParseInt(s) ==
  Bind(Strip(s), LAMBDA t :
    Bind(IF t # <<>> /\ Head(t) \in {"-", "+"} THEN Tail(t) ELSE t, LAMBDA u :
      IF AllDigits(u) THEN Some((IF Head(t) = "-" THEN -1 ELSE 1) * NatVal(u)) ELSE None))

\* float(s) in tenths, for texts with at most one decimal: None stands for
\* ValueError
ParseFloat(s) ==
  Bind(Strip(s), LAMBDA t :
    Bind(Split(IF t # <<>> /\ Head(t) \in {"-", "+"} THEN Tail(t) ELSE t, <<".">>),
         LAMBDA parts :
      IF /\ Len(parts) <= 2
         /\ AllDigits(Join(parts, <<>>))
         /\ (Len(parts) = 2 => Len(parts[2]) <= 1)
      THEN Some((IF Head(t) = "-" THEN -1 ELSE 1)
                * (NatVal(parts[1]) * 10 + (IF Len(parts) = 2 THEN NatVal(parts[2]) ELSE 0)))
      ELSE None))

----------------------------------------------------------------------------
(* SearchService.build_search_query (GraphQL search_movies) *)

\* search_query.replace('"', '\\"').replace("'", "\\'")
escaped_query(search_query) ==
  Replace(Replace(search_query, DQ, <<BS, DQ>>), SQ, <<BS, SQ>>)

\* the prefix-OR clause over content, stars, director and writer
text_search(e) ==
  <<"(@content:">> \o e \o <<"* | @stars:">> \o e \o <<"* | @director:">> \o e
    \o <<"* | @writer:">> \o e \o <<"*)">>

\* `if value: query_parts.append(f"@field:{value}")`
field_part(name, value) ==
  IF TruthySeq(value) THEN << <<"@" \o name \o ":">> \o value[1] >> ELSE <<>>

\* a range clause of build_search_query: emitted when either bound is not None
service_range(name, lo, hi, loStr, hiStr, loDefault, hiDefault) ==
  IF lo # None \/ hi # None
  THEN << <<"@" \o name \o ":[">>
            \o (IF lo # None THEN loStr ELSE loDefault)
            \o <<" ">>
            \o (IF hi # None THEN hiStr ELSE hiDefault)
            \o <<"]">> >>
  ELSE <<>>

OptIntStr(o) == IF o = None THEN <<>> ELSE IntChars(o[1])

OptFloatStr(o) == IF o = None THEN <<>> ELSE FloatChars(o[1])

query_parts(s) ==
  << IF s.query # <<>> THEN text_search(escaped_query(s.query)) ELSE <<"*">> >>
    \o field_part("genre", s.genre)
    \o field_part("subgenre", s.subgenre)
    \o field_part("language", s.language)
    \o field_part("country", s.country)
    \o field_part("production_house", s.production_house)
    \o field_part("director", s.director)
    \o field_part("stars", s.actor)
    \o service_range("year", s.year_from, s.year_to,
                     OptIntStr(s.year_from), OptIntStr(s.year_to), IntChars(0), <<"+inf">>)
    \o service_range("imdb_rating", s.rating_min, s.rating_max,
                     OptFloatStr(s.rating_min), OptFloatStr(s.rating_max), IntChars(0), IntChars(10))

\* final_query = " ".join(query_parts)
build_search_query(s) == Join(query_parts(s), <<" ">>)

\* str.lower() on the letters a sort direction is written with
LowerChar(c) ==
  CASE c = "A" -> "a" [] c = "S" -> "s" [] c = "C" -> "c"
    [] c = "D" -> "d" [] c = "E" -> "e" [] OTHER -> c

Lower(s) == [i \in 1..Len(s) |-> LowerChar(s[i])]

field_mapping == {"title", "imdb_rating", "year", "popu", "modified_time"}

\* SearchService._build_sort_options: None, or "<field> ASC|DESC"
_build_sort_options(sort_field, sort_direction) ==
  IF sort_field = "relevance" THEN None
  ELSE IF sort_field \notin field_mapping THEN None
  ELSE Some(sort_field \o " "
            \o (IF Lower(sort_direction) = <<"a", "s", "c">> THEN "ASC" ELSE "DESC"))

----------------------------------------------------------------------------
(* Query.advanced_search_movies and the REST handlers *)

\* `x or "*"` for the free text of the advanced and REST handlers
query_or_star(q) == IF TruthySeq(q) THEN q[1] ELSE <<"*">>

\* "(" + " OR ".join(f"@field:{{{v}}}" for v in values) + ")"
tag_group(name, values) ==
  <<"(">> \o Join([i \in 1..Len(values) |-> <<"@" \o name \o ":{">> \o values[i] \o <<"}">>],
                 <<" OR ">>)
    \o <<")">>

\* resolvers.py: `if search.filters and search.filters.<list>:` one OR-group
advanced_tag(name, values) ==
  IF TruthySeq(values) THEN <<tag_group(name, values[1])>> ELSE <<>>

\* resolvers.py: a range clause is emitted when the range object is given; a
\* bound is used when it is truthy (not None and not 0)
advanced_range(name, range, isFloat, loDefault, hiDefault) ==
  LET str(x) == IF isFloat THEN OptFloatStr(x) ELSE OptIntStr(x) IN
  IF range # None
  THEN << <<"@" \o name \o ":[">>
            \o (IF TruthyNum(range[1].min) THEN str(range[1].min) ELSE loDefault)
            \o <<" ">>
            \o (IF TruthyNum(range[1].max) THEN str(range[1].max) ELSE hiDefault)
            \o <<"]">> >>
  ELSE <<>>

\* resolvers.py 163-219: the filters list as built before country is read
advanced_filters(f) ==
  advanced_tag("genre", f.genres)
    \o advanced_tag("subgenre", f.subgenres)
    \o advanced_tag("language", f.languages)
    \o advanced_tag("production_house", f.production_houses)
    \o advanced_tag("source", f.sources)
    \o advanced_range("year", f.year_range, FALSE, IntChars(1900), IntChars(2030))
    \o advanced_range("imdb_rating", f.rating_range, TRUE, IntChars(0), IntChars(10))
    \o advanced_range("popu", f.popularity_range, FALSE, IntChars(0), IntChars(1000000))
    \o field_part("director", f.director)
    \o field_part("writer", f.writer)
    \o field_part("stars", f.stars)

\* `f"{query} {' '.join(filters)}"` if filters else query
combine_query(query, filters) ==
  IF filters # <<>> THEN query \o <<" ">> \o Join(filters, <<" ">>) ELSE query

\* MovieFilters declares neither country nor awards (types.py 243-262), so
\* `search.filters.country` raises AttributeError whenever filters is given
advanced_raises(inp) == inp.filters # None

advanced_full_query(inp) ==
  combine_query(query_or_star(inp.query),
                IF inp.filters = None THEN <<>> ELSE advanced_filters(inp.filters[1]))

\* the sort clause of the advanced and GET handlers: "@field:ASC" / "@field:DESC"
at_sort_by(sort_field, sort_direction) ==
  IF TruthySeq(sort_field) /\ sort_field[1] # <<"relevance">>
  THEN Some("@" \o Flatten(sort_field[1]) \o ":"
            \o (IF sort_direction = Some(<<"a", "s", "c">>) THEN "ASC" ELSE "DESC"))
  ELSE None

\* the sort clause of the POST handler: "field ASC" / "field DESC"
post_sort_by(sort_field, sort_direction) ==
  IF TruthySeq(sort_field) /\ sort_field[1] # <<"relevance">>
  THEN Some(Flatten(sort_field[1]) \o " "
            \o (IF sort_direction = Some(<<"a", "s", "c">>) THEN "ASC" ELSE "DESC"))
  ELSE None

\* movies.py 346-350: `x.split(",") if x else None`
get_list(param) == IF TruthySeq(param) THEN Some(Split(param[1], <<",">>)) ELSE None

\* movies.py 356-374: each value is stripped before it is wrapped
get_tag(name, list) ==
  IF TruthySeq(list)
  THEN <<tag_group(name, [i \in 1..Len(list[1]) |-> Strip(list[1][i])])>>
  ELSE <<>>

get_filters(r) ==
  get_tag("genre", get_list(r.genres))
    \o get_tag("subgenre", get_list(r.subgenres))
    \o get_tag("language", get_list(r.languages))
    \o get_tag("production_house", get_list(r.production_houses))
    \o get_tag("source", get_list(r.sources))
    \o service_range("year", r.min_year, r.max_year,
                 OptIntStr(r.min_year), OptIntStr(r.max_year), IntChars(1900), IntChars(2030))
    \o service_range("imdb_rating", r.min_rating, r.max_rating,
                 OptFloatStr(r.min_rating), OptFloatStr(r.max_rating), IntChars(0), IntChars(10))
    \o service_range("popu", r.min_popularity, r.max_popularity,
                 OptIntStr(r.min_popularity), OptIntStr(r.max_popularity), IntChars(0), IntChars(1000000))
    \o field_part("director", r.director)
    \o field_part("writer", r.writer)
    \o field_part("stars", r.stars)
    \o field_part("country", r.country)
    \o field_part("awards", r.awards)

get_full_query(r) == combine_query(query_or_star(r.q), get_filters(r))

\* movies.py 152-186: the filters dict of the POST handler; only whether it is
\* empty decides which store method is called
post_has_filters(r) ==
  \/ TruthySeq(r.genres) \/ TruthySeq(r.subgenres) \/ TruthySeq(r.languages)
  \/ TruthySeq(r.production_houses) \/ TruthySeq(r.sources)
  \/ r.min_year # None \/ r.max_year # None
  \/ r.min_rating # None \/ r.max_rating # None
  \/ r.min_popularity # None \/ r.max_popularity # None

----------------------------------------------------------------------------
(* The document store: Redis hashes under the movie: prefix, written by    *)
(* RedisSearchService.index_document and read back by FT.SEARCH.           *)
(* store is the sequence of hashes in the order FT.SEARCH returns them.    *)
(* A value handed to index_document is a Python value [ty, v]:             *)
(* "absent" (no such key), "none", "str", "int", "float" or "list".        *)

Absent == [ty |-> "absent", v |-> <<>>]

PyNone == [ty |-> "none", v |-> <<>>]

PyStr(chars) == [ty |-> "str", v |-> chars]

PyInt(n) == [ty |-> "int", v |-> n]

PyFloat(t) == [ty |-> "float", v |-> t]

PyList(l) == [ty |-> "list", v |-> l]

\* data.get(key, default)
DataGet(x, default) == IF x.ty = "absent" THEN default ELSE x

\* redis-py encodes str, int and float values; None and lists raise DataError
Encodable(x) == x.ty \in {"str", "int", "float"}

Encode(x) ==
  CASE x.ty = "int" -> IntChars(x.v)
    [] x.ty = "float" -> FloatChars(x.v)
    [] OTHER -> x.v

\* " ".join(x): a list of texts is joined; a str is iterated character by
\* character; None raises TypeError
SpaceJoinable(x) == x.ty \in {"str", "list"}

SpaceJoin(x) ==
  IF x.ty = "list" THEN Join(x.v, <<" ">>)
  ELSE Join([i \in 1..Len(x.v) |-> <<x.v[i]>>], <<" ">>)

\* whether index_document raises (and returns False without writing)
index_document_raises(data) ==
  \/ ~SpaceJoinable(DataGet(data.stars, PyList(<<>>)))
  \/ ~SpaceJoinable(DataGet(data.awards, PyList(<<>>)))
  \/ ~Encodable(DataGet(data.title, PyStr(<<>>)))
  \/ ~Encodable(DataGet(data.content, PyStr(<<>>)))
  \/ ~Encodable(DataGet(data.genre, PyStr(<<>>)))
  \/ ~Encodable(DataGet(data.language, PyStr(<<>>)))
  \/ ~Encodable(DataGet(data.production_house, PyStr(<<>>)))
  \/ ~Encodable(DataGet(data.year, PyInt(0)))
  \/ ~Encodable(DataGet(data.imdb_rating, PyFloat(0)))

\* doc_data of index_document, as the hash reads back (every value a text)
doc_data(document_id, data) ==
  [id |-> "movie:" \o document_id,
   title |-> Some(Encode(DataGet(data.title, PyStr(<<>>)))),
   stars |-> Some(SpaceJoin(DataGet(data.stars, PyList(<<>>)))),
   awards |-> Some(SpaceJoin(DataGet(data.awards, PyList(<<>>)))),
   content |-> Some(Encode(DataGet(data.content, PyStr(<<>>)))),
   genre |-> Some(Encode(DataGet(data.genre, PyStr(<<"u", "n", "k", "n", "o", "w", "n">>)))),
   language |-> Some(Encode(DataGet(data.language, PyStr(<<"unknown">>)))),
   production_house |-> Some(Encode(DataGet(data.production_house, PyStr(<<"unknown">>)))),
   year |-> Some(Encode(DataGet(data.year, PyInt(0)))),
   imdb_rating |-> Some(Encode(DataGet(data.imdb_rating, PyFloat(0))))]

\* HSET on a key: a rewritten hash is returned last
Hset(st, doc) == SelectSeq(st, LAMBDA d : d.id # doc.id) \o <<doc>>

\* RedisSearchService.delete_document: DEL on the key
delete_document(st, key) == SelectSeq(st, LAMBDA d : d.id # key)

----------------------------------------------------------------------------
(* FT.SEARCH as RedisSearchService.search issues it: the query language of *)
(* the store, for the clause forms the builders emit.                      *)

\* the number of backslashes right before position i
RECURSIVE BackslashRun(_, _)
BackslashRun(q, i) == IF i > 1 /\ q[i - 1] = BS THEN 1 + BackslashRun(q, i - 1) ELSE 0

\* a quote character at position i that no backslash escapes
HasUnescapedQuote(q) ==
  \E i \in 1..Len(q) : q[i] \in {DQ, SQ} /\ BackslashRun(q, i) % 2 = 0

\* a term with its escaping removed
RECURSIVE Unescape(_)
Unescape(t) ==
  IF t = <<>> THEN <<>>
  ELSE IF Head(t) = BS /\ Len(t) >= 2 THEN <<t[2]>> \o Unescape(SubSeq(t, 3, Len(t)))
  ELSE <<Head(t)>> \o Unescape(Tail(t))

RECURSIVE TakeUntil(_, _)
TakeUntil(s, stops) ==
  IF s = <<>> \/ Head(s) \in stops THEN <<>> ELSE <<Head(s)>> \o TakeUntil(Tail(s), stops)

StoreFields == {"title", "stars", "awards", "content", "genre", "language",
                "production_house", "year", "imdb_rating"}

\* the field a clause head such as "@genre:{" names
HeadField(h) ==
  IF \E f \in StoreFields : h \in {"@" \o f \o ":", "@" \o f \o ":{", "@" \o f \o ":["}
  THEN CHOOSE f \in StoreFields : h \in {"@" \o f \o ":", "@" \o f \o ":{", "@" \o f \o ":["}
  ELSE "none"

\* the first top-level clause of a query text
ParseClause(s) ==
  LET h == Head(s) IN
  CASE h = "*" -> [kind |-> "all", len |-> 1]
    [] h = "(@content:" ->
         LET e == TakeUntil(Tail(s), {"* | @stars:"})
         IN [kind |-> "text", term |-> e, len |-> 4 * Len(e) + 5]
    [] h = "(" ->
         LET body == TakeUntil(Tail(s), {")"})
         IN [kind |-> "tags", items |-> Split(body, <<" OR ">>), len |-> Len(body) + 2]
    [] h \in {"@" \o f \o ":[" : f \in {"year", "imdb_rating", "popu"}} ->
         LET lo == TakeUntil(Tail(s), {" "})
             hi == TakeUntil(SubSeq(s, Len(lo) + 3, Len(s)), {"]"})
         IN [kind |-> "range", field |-> HeadField(h), lo |-> lo, hi |-> hi,
             len |-> Len(lo) + Len(hi) + 3]
    [] h \in {"@" \o f \o ":" : f \in StoreFields \cup {"subgenre", "country", "director",
                                                    "writer", "source", "popu"}} ->
         LET v == TakeUntil(Tail(s), {" "})
         IN [kind |-> "field", field |-> HeadField(h), value |-> v, len |-> Len(v) + 1]
    [] OTHER ->
         LET v == TakeUntil(s, {" "})
         IN [kind |-> "term", term |-> v, len |-> IF v = <<>> THEN 1 ELSE Len(v)]

RECURSIVE ParseQuery(_)
ParseQuery(q) ==
  IF q = <<>> THEN <<>>
  ELSE LET c == ParseClause(q)
           rest == SubSeq(q, c.len + 1, Len(q))
       IN <<c>> \o ParseQuery(IF rest # <<>> /\ Head(rest) = " " THEN Tail(rest) ELSE rest)

HashText(d, f) == IF d[f] = None THEN <<>> ELSE d[f][1]

WordsOf(d, f) == Split(HashText(d, f), <<" ">>)

\* a numeric bound: -inf and +inf are beyond every stored number
Bound(b) ==
  CASE b = <<"-inf">> -> Some(-100000000)
    [] b = <<"+inf">> -> Some(100000000)
    [] OTHER -> ParseFloat(b)

ClauseMatches(c, d) ==
  CASE c.kind = "all" -> TRUE
    [] c.kind = "text" ->
         Bind(Unescape(c.term), LAMBDA term :
           \E f \in {"content", "stars"} :
             Bind(WordsOf(d, f), LAMBDA words :
               \E i \in 1..Len(words) :
                 /\ words[i] # <<>>
                 /\ Len(term) <= Len(words[i])
                 /\ SubSeq(words[i], 1, Len(term)) = term))
    [] c.kind = "tags" ->
         \E i \in 1..Len(c.items) :
           LET it == c.items[i] IN
           /\ Len(it) >= 2
           /\ HeadField(it[1]) # "none"
           /\ it[Len(it)] = "}"
           /\ Flatten(HashText(d, HeadField(it[1]))) = Flatten(SubSeq(it, 2, Len(it) - 1))
    [] c.kind = "range" ->
         /\ c.field # "none"
         /\ Bind(ParseFloat(HashText(d, c.field)), LAMBDA x :
              Bind(Bound(c.lo), LAMBDA lo :
                Bind(Bound(c.hi), LAMBDA hi :
                  x # None /\ lo # None /\ hi # None /\ lo[1] <= x[1] /\ x[1] <= hi[1])))
    [] c.kind = "field" ->
         /\ c.field # "none"
         /\ Flatten(HashText(d, c.field)) = Flatten(c.value)
    [] OTHER ->
         \E f \in {"content", "title", "stars"} :
           Bind(WordsOf(d, f), LAMBDA words : \E i \in 1..Len(words) : words[i] = Unescape(c.term))

\* the documents matching a query, in the store's order
Matching(st, q) ==
  Bind(ParseQuery(q), LAMBDA clauses :
    SelectSeq(st, LAMBDA d : \A i \in 1..Len(clauses) : ClauseMatches(clauses[i], d)))

\* FT.SEARCH raises on a query it cannot parse and on a negative LIMIT
CommandRaises(q, offset, limit) == HasUnescapedQuote(q) \/ offset < 0 \/ limit < 0

Min(a, b) == IF a < b THEN a ELSE b

\* RedisSearchService.search: the page of hashes, [] when the command raises
\* or when the reply holds the count alone
search(st, fault, q, offset, limit) ==
  IF fault = "command" \/ CommandRaises(q, offset, limit) THEN <<>>
  ELSE Bind(Matching(st, q), LAMBDA found :
         SubSeq(found, offset + 1, Min(offset + limit, Len(found))))

\* RedisSearchService.get_document_count: num_docs of FT.INFO, 0 on failure
get_document_count(st, fault) == IF fault = "command" THEN 0 ELSE Len(st)

----------------------------------------------------------------------------
(* Pagination arithmetic and the mapping of store hashes to movies *)

\* Python's a // b for b # 0 (floor division)
FloorDiv(a, b) == IF b > 0 THEN a \div b ELSE (-a) \div (-b)

\* the page count without the round-up term: total_count // page_size
total_pages_floor(total_count, page_size) == FloorDiv(total_count, page_size)

\* (total_count + page_size - 1) // page_size
total_pages_of(total_count, page_size) == FloorDiv(total_count + page_size - 1, page_size)

\* the offset of the page before: (page - 2) * page_size
offset_of_previous(page, page_size) == (page - 2) * page_size

\* (page - 1) * page_size
offset_of(page, page_size) == (page - 1) * page_size

\* the stars/awards expression of the resolvers and the GET handler: the value
\* read from a hash is a str, split on ", " when it is not empty
split_field(raw) == IF TruthySeq(raw) THEN Split(raw[1], <<",", " ">>) ELSE <<>>

\* float(doc.get(key, 0.0)) and int(doc.get(key, 0)): None stands for ValueError
float_of(raw) == IF raw = None THEN Some(0) ELSE ParseFloat(raw[1])

int_of(raw) == IF raw = None THEN Some(0) ELSE ParseInt(raw[1])

\* Movie(...) of Query.search_movies raises when a number does not parse
movie_raises(d) == float_of(d.imdb_rating) = None \/ int_of(d.year) = None

\* Movie(...) as Query.search_movies builds it (resolvers.py 94-122)
to_movie(d) ==
  [id |-> d.id,
   title |-> HashText(d, "title"),
   genre |-> HashText(d, "genre"),
   stars |-> split_field(d.stars),
   awards |-> split_field(d.awards),
   imdb_rating |-> float_of(d.imdb_rating)[1],
   year |-> int_of(d.year)[1]]

\* Movie(...) of advanced_search_movies: the numbers are passed through as read
to_movie_raw(d) ==
  [id |-> d.id,
   title |-> HashText(d, "title"),
   genre |-> HashText(d, "genre"),
   stars |-> split_field(d.stars),
   awards |-> split_field(d.awards),
   imdb_rating |-> d.imdb_rating,
   year |-> d.year]

MapSeq(f(_), xs) == [i \in 1..Len(xs) |-> f(xs[i])]

\* the response of a handler that raised (GraphQL error, HTTP 500) or that
\* the request validation turned away (HTTP 422)
Failure(op, req, status, calls) ==
  [op |-> op, req |-> req, status |-> status, calls |-> calls]

Call(q, offset, limit, sort_by) ==
  [query |-> q, offset |-> offset, limit |-> limit, sort_by |-> sort_by]

PageResult(op, req, calls, movies, total_count, page, page_size, facets) ==
  [op |-> op, req |-> req, status |-> "ok", calls |-> calls,
   movies |-> movies,
   total_count |-> total_count,
   page |-> page,
   page_size |-> page_size,
   total_pages |-> total_pages_of(total_count, page_size),
   has_next |-> page < total_pages_of(total_count, page_size),
   has_previous |-> page > 1,
   facets |-> facets]

----------------------------------------------------------------------------
(* Query.search_movies with SearchService.search_movies *)

\* SearchService._get_total_count: the count of FT.SEARCH ... LIMIT 0 0, and 0
\* when the command raises
_get_total_count(st, fault, q) ==
  IF fault = "command" \/ HasUnescapedQuote(q) THEN 0 ELSE Len(Matching(st, q))

\* the page and the page size of Query.search_movies (resolvers.py 75-76)
search_page(req) == IF req.pagination = None THEN 1 ELSE req.pagination[1].page

search_page_size(req) == IF req.pagination = None THEN 20 ELSE req.pagination[1].page_size

\* the answer of Query.search_movies once SearchService.search_movies has
\* returned results and total_count (resolvers.py 90-137)
search_movies_answer(req, results, total_count) ==
  LET query == build_search_query(req.search)
      page == search_page(req)
      page_size == search_page_size(req)
      sort_field == IF req.sort = None THEN "relevance" ELSE req.sort[1].field
      sort_direction == IF req.sort = None THEN <<"d", "e", "s", "c">> ELSE req.sort[1].direction
      offset == offset_of(page, page_size)
      call == Call(query, offset, page_size, _build_sort_options(sort_field, sort_direction))
  IN IF req.fault = "connect" THEN Failure("search_movies", req, "error", <<>>)
     ELSE IF \E i \in 1..Len(results) : movie_raises(results[i])
       THEN Failure("search_movies", req, "error", <<call>>)
     ELSE IF page_size = 0 THEN Failure("search_movies", req, "error", <<call>>)
     ELSE PageResult("search_movies", req, <<call>>, MapSeq(to_movie, results),
                     total_count, page, page_size, None)

search_movies(st, req) ==
  search_movies_answer(req,
                       search(st, req.fault, build_search_query(req.search),
                              offset_of(search_page(req), search_page_size(req)),
                              search_page_size(req)),
                       _get_total_count(st, req.fault, build_search_query(req.search)))

----------------------------------------------------------------------------
(* Counting and ordering, as the aggregations use them *)

\* counts.setdefault(v, 1): a value seen again is not counted again
count_value_once(table, v) ==
  IF \E i \in 1..Len(table) : table[i].value = v THEN table
  ELSE Append(table, [value |-> v, count |-> 1])

\* counts[v] = counts.get(v, 0) + 1 on an insertion-ordered dict, kept as a
\* sequence of [value, count] in the order the values were first seen
count_value(table, v) ==
  IF \E i \in 1..Len(table) : table[i].value = v
  THEN [i \in 1..Len(table) |->
          IF table[i].value = v THEN [value |-> v, count |-> table[i].count + 1]
          ELSE table[i]]
  ELSE Append(table, [value |-> v, count |-> 1])

\* sorted(..., key, reverse=True) over [k, x] pairs: descending by k, elements
\* with equal keys in their input order
RECURSIVE InsertDesc(_, _)
InsertDesc(sorted, e) ==
  IF sorted = <<>> THEN <<e>>
  ELSE IF Head(sorted).k >= e.k THEN <<Head(sorted)>> \o InsertDesc(Tail(sorted), e)
  ELSE <<e>> \o sorted

RECURSIVE SortDesc(_)
SortDesc(pairs) ==
  IF pairs = <<>> THEN <<>>
  ELSE InsertDesc(SortDesc(SubSeq(pairs, 1, Len(pairs) - 1)), pairs[Len(pairs)])

\* a count table left in the order its values were first seen
first_seen_order(table) == table

\* a count table sorted by count, descending
sorted_by_count(table) ==
  LET srt == SortDesc([i \in 1..Len(table) |-> [k |-> table[i].count, x |-> table[i]]])
  IN [i \in 1..Len(srt) |-> srt[i].x]

FirstN(xs, n) == SubSeq(xs, 1, Min(n, Len(xs)))

\* max(table.items(), key=count)[0]: the first entry with the greatest count
top_of(table) ==
  table[CHOOSE i \in 1..Len(table) :
          /\ \A j \in 1..Len(table) : table[j].count <= table[i].count
          /\ \A j \in 1..(i - 1) : table[j].count < table[i].count].value

RECURSIVE SumSeq(_)
SumSeq(xs) == IF xs = <<>> THEN 0 ELSE Head(xs) + SumSeq(Tail(xs))

MaxOf(xs) == CHOOSE m \in {xs[i] : i \in 1..Len(xs)} : \A i \in 1..Len(xs) : xs[i] <= m

\* round(total / n, 1) for a total in tenths: the nearest tenth, a tie going
\* to the even tenth
Round1(total, n) ==
  LET q == total \div n
      r == total % n
  IN IF 2 * r < n THEN q
     ELSE IF 2 * r > n THEN q + 1
     ELSE IF q % 2 = 0 THEN q ELSE q + 1

----------------------------------------------------------------------------
(* _get_facet_data: resolvers.py 737-786 and movies.py 621-672 *)

\* the count table of one field over the fetched hashes; empty values are
\* skipped (`if genre:`)
RECURSIVE facet_counts(_, _)
facet_counts(docs, f) ==
  IF docs = <<>> THEN <<>>
  ELSE LET table == facet_counts(SubSeq(docs, 1, Len(docs) - 1), f)
           v == HashText(docs[Len(docs)], f)
       IN IF v # <<>> THEN count_value(table, v) ELSE table

\* FacetData(field, values) for a field that has at least one value
facet_of(docs, f) ==
  IF facet_counts(docs, f) # <<>>
  THEN << [field |-> f, values |-> sorted_by_count(facet_counts(docs, f))] >>
  ELSE <<>>

facets_over(docs) ==
  facet_of(docs, "genre") \o facet_of(docs, "language") \o facet_of(docs, "production_house")

\* resolvers.py 743: redis_service.search("*", limit=0)
FacetLimitGraphQL == 0

\* movies.py 627: redis_service.search("*", limit=1000)
FacetLimitRest == 1000

resolvers_get_facet_data(st, fault) ==
  facets_over(search(st, fault, <<"*">>, 0, FacetLimitGraphQL))

movies_get_facet_data(st, fault) ==
  facets_over(search(st, fault, <<"*">>, 0, FacetLimitRest))

----------------------------------------------------------------------------
(* Query.advanced_search_movies *)

\* search.page or 1
advanced_page(inp) == IF inp.page # 0 THEN inp.page ELSE 1

\* min(search.page_size or 20, search.max_page_size or 100)
advanced_page_size(inp) ==
  Min(IF inp.page_size # 0 THEN inp.page_size ELSE 20,
      IF inp.max_page_size # 0 THEN inp.max_page_size ELSE 100)

advanced_search_movies(st, req) ==
  LET full_query == advanced_full_query(req)
      page == advanced_page(req)
      page_size == advanced_page_size(req)
      offset == offset_of(page, page_size)
      call == Call(full_query, offset, page_size, at_sort_by(req.sort_field, req.sort_direction))
      results == search(st, req.fault, full_query, offset, page_size)
      total_count == get_document_count(st, req.fault)
      facets == IF req.include_facets THEN Some(resolvers_get_facet_data(st, req.fault))
                ELSE None
      facet_calls == IF req.include_facets
                     THEN <<Call(<<"*">>, 0, FacetLimitGraphQL, None)>> ELSE <<>>
  IN IF req.fault = "connect" THEN Failure("advanced_search_movies", req, "error", <<>>)
     ELSE IF advanced_raises(req) THEN Failure("advanced_search_movies", req, "error", <<>>)
     ELSE PageResult("advanced_search_movies", req, <<call>> \o facet_calls,
                     MapSeq(to_movie_raw, results), total_count, page, page_size, facets)

----------------------------------------------------------------------------
(* REST POST /api/movies/search and GET /api/movies/search *)

\* Field(ge=..., le=...) and Query(ge=..., le=...): a value outside is answered
\* with 422 before the handler runs
InRange(o, lo, hi) == o = None \/ (lo <= o[1] /\ o[1] <= hi)

MaxPageSize == 100

rest_valid(r) ==
  /\ r.page >= 1
  /\ r.page_size >= 1 /\ r.page_size <= MaxPageSize
  /\ InRange(r.min_year, 1900, 2030) /\ InRange(r.max_year, 1900, 2030)
  /\ InRange(r.min_rating, 0, 100) /\ InRange(r.max_rating, 0, 100)
  /\ r.min_popularity = None \/ r.min_popularity[1] >= 0
  /\ r.max_popularity = None \/ r.max_popularity[1] >= 0

\* json.loads(text): a text of digits loads as a number, which MovieResponse
\* refuses for a list field; the other texts of the model do not load
json_loads_raises_validation(raw) == TruthySeq(raw) /\ AllDigits(raw[1])

\* movies.py 219-239: `[stars] if stars else []` once json.loads has failed
post_list_field(raw) == IF TruthySeq(raw) THEN <<raw[1]>> ELSE <<>>

post_movie_raises(d) ==
  \/ movie_raises(d)
  \/ json_loads_raises_validation(d.stars)
  \/ json_loads_raises_validation(d.awards)

post_to_movie(d) ==
  [id |-> d.id,
   title |-> HashText(d, "title"),
   genre |-> HashText(d, "genre"),
   stars |-> post_list_field(d.stars),
   awards |-> post_list_field(d.awards),
   imdb_rating |-> float_of(d.imdb_rating)[1],
   year |-> int_of(d.year)[1]]

\* redis_service.advanced_search is not a method of RedisSearchService, so the
\* call of movies.py 200 raises AttributeError
post_search(st, req) ==
  LET query == query_or_star(req.query)
      offset == offset_of(req.page, req.page_size)
      call == Call(query, offset, req.page_size, post_sort_by(req.sort_field, req.sort_direction))
      documents == search(st, req.fault, query, offset, req.page_size)
      total_count == get_document_count(st, req.fault)
      facets == IF req.include_facets THEN Some(movies_get_facet_data(st, req.fault))
                ELSE None
      facet_calls == IF req.include_facets
                     THEN <<Call(<<"*">>, 0, FacetLimitRest, None)>> ELSE <<>>
  IN IF ~rest_valid(req) THEN Failure("post_search", req, "rejected", <<>>)
     ELSE IF req.fault = "connect" THEN Failure("post_search", req, "error", <<>>)
     ELSE IF post_has_filters(req) THEN Failure("post_search", req, "error", <<>>)
     ELSE IF \E i \in 1..Len(documents) : post_movie_raises(documents[i])
       THEN Failure("post_search", req, "error", <<call>>)
     ELSE PageResult("post_search", req, <<call>> \o facet_calls,
                     MapSeq(post_to_movie, documents), total_count,
                     req.page, req.page_size, facets)

\* MovieResponse(...) of the GET handler: pydantic turns the texts read from
\* the hash into float and int, and refuses the ones that do not parse
search_movies_get(st, req) ==
  LET full_query == get_full_query(req)
      offset == offset_of(req.page, req.page_size)
      call == Call(full_query, offset, req.page_size, at_sort_by(req.sort_field, req.sort_direction))
      results == search(st, req.fault, full_query, offset, req.page_size)
      total_count == get_document_count(st, req.fault)
  IN IF ~rest_valid(req) THEN Failure("search_movies_get", req, "rejected", <<>>)
     ELSE IF req.fault = "connect" THEN Failure("search_movies_get", req, "error", <<>>)
     ELSE IF \E i \in 1..Len(results) : movie_raises(results[i])
       THEN Failure("search_movies_get", req, "error", <<call>>)
     ELSE PageResult("search_movies_get", req, <<call>>, MapSeq(to_movie, results),
                     total_count, req.page, req.page_size, None)

----------------------------------------------------------------------------
(* SearchService.get_dashboard_stats and SearchService._is_valid_genre *)

Letters ==
  {"a", "b", "c", "d", "e", "f", "g", "h", "i", "j", "k", "l", "m", "n", "o", "p", "q",
   "r", "s", "t", "u", "v", "w", "x", "y", "z",
   "A", "B", "C", "D", "E", "F", "G", "H", "I", "J", "K", "L", "M", "N", "O", "P", "Q",
   "R", "S", "T", "U", "V", "W", "X", "Y", "Z"}

Unknown == <<"U", "n", "k", "n", "o", "w", "n">>

\* search_service.py 413-445
_is_valid_genre(genre) ==
  IF genre = <<>> \/ genre = Unknown THEN FALSE
  ELSE IF Bind(ParseInt(genre), LAMBDA year : year # None /\ 1900 <= year[1] /\ year[1] <= 2030)
    THEN FALSE
  ELSE IF /\ Len(genre) > 15
          /\ Cardinality({i \in 1..Len(genre) : genre[i] \in Letters \/ IsDigit(genre[i])}) * 10
               > 8 * Len(genre)
    THEN FALSE
  ELSE IF Head(genre) = "1" /\ Len(genre) > 15 THEN FALSE
  ELSE TRUE

\* movie.get('genre', 'Unknown') and movie.get('title', 'Unknown')
get_or_unknown(raw) == IF raw = None THEN Unknown ELSE raw[1]

\* the hashes whose value passes `if movie.get(key)`
with_value(docs, f) == SelectSeq(docs, LAMBDA d : TruthySeq(d[f]))

\* genre_counts of search_service.py 478-482, over a sequence of genre texts
RECURSIVE valid_genre_counts(_)
valid_genre_counts(genres) ==
  IF genres = <<>> THEN <<>>
  ELSE LET table == valid_genre_counts(SubSeq(genres, 1, Len(genres) - 1))
           g == genres[Len(genres)]
       IN IF _is_valid_genre(g) THEN count_value(table, g) ELSE table

genres_of(docs) == [i \in 1..Len(docs) |-> get_or_unknown(docs[i].genre)]

\* a rating statistic: num / den tenths of a point
Exactly(tenths) == [num |-> tenths, den |-> 1]

\* round(sum(ratings) / len(ratings), 1), and 0.0 for no rating
average_of(ratings) ==
  IF ratings = <<>> THEN Exactly(0) ELSE Exactly(Round1(SumSeq(ratings), Len(ratings)))

ratings_of(docs) ==
  LET rated == with_value(docs, "imdb_rating")
  IN [i \in 1..Len(rated) |-> float_of(rated[i].imdb_rating)[1]]

\* the years that occur, greatest first (sorted(yearly_data.keys(), reverse=True))
RECURSIVE DescendingSet(_)
DescendingSet(S) ==
  IF S = {} THEN <<>>
  ELSE LET m == CHOOSE x \in S : \A y \in S : y <= x
       IN <<m>> \o DescendingSet(S \ {m})

\* top_movies of one year (search_service.py 528-536): the titles of the year
\* are zipped with all_movies from its start, and the rating is read from
\* the zipped hash
year_top_movies(titles, all_movies) ==
  LET n == Min(Len(titles), Len(all_movies))
      idx == SelectSeq([i \in 1..n |-> i], LAMBDA i : TruthySeq(all_movies[i].imdb_rating))
      pairs == [j \in 1..Len(idx) |->
                  [k |-> float_of(all_movies[idx[j]].imdb_rating)[1], x |-> titles[idx[j]]]]
      srt == FirstN(SortDesc(pairs), 3)
  IN [j \in 1..Len(srt) |-> srt[j].x]

yearly_stat(year, all_movies) ==
  LET of_year == SelectSeq(all_movies, LAMBDA d : int_of(d.year)[1] = year)
      titles == [i \in 1..Len(of_year) |-> get_or_unknown(of_year[i].title)]
      top == FirstN(sorted_by_count(valid_genre_counts(genres_of(of_year))), 3)
  IN [year |-> year,
      count |-> Len(of_year),
      top_genres |-> [i \in 1..Len(top) |-> top[i].value],
      top_movies |-> year_top_movies(titles, all_movies),
      average_rating |-> average_of(ratings_of(of_year))]

yearly_stats_of(all_movies) ==
  LET years == DescendingSet({y \in {int_of(all_movies[i].year)[1] : i \in 1..Len(all_movies)} :
                                y > 0})
  IN [i \in 1..Len(years) |-> yearly_stat(years[i], all_movies)]

\* search_service.py 549-563
top_rated_movies_of(all_movies) ==
  LET rated == SelectSeq(all_movies, LAMBDA d : TruthySeq(d.imdb_rating) /\ TruthySeq(d.title))
      srt == SortDesc([i \in 1..Len(rated) |->
                         [k |-> float_of(rated[i].imdb_rating)[1],
                          x |-> [title |-> get_or_unknown(rated[i].title),
                                 year |-> int_of(rated[i].year)[1],
                                 genre |-> get_or_unknown(rated[i].genre),
                                 rating |-> float_of(rated[i].imdb_rating)[1]]]])
  IN [i \in 1..Len(srt) |-> srt[i].x]

\* float(...) or int(...) of search_service.py 470-559 raises on some hash
stats_raise(all_movies) ==
  \E i \in 1..Len(all_movies) :
    \/ TruthySeq(all_movies[i].imdb_rating) /\ float_of(all_movies[i].imdb_rating) = None
    \/ int_of(all_movies[i].year) = None

DashboardLimit == 10000

\* the dict returned for an empty fetch (search_service.py 458-466)
EmptyStats(req) ==
  [op |-> "service_dashboard", req |-> req, status |-> "ok",
   total_movies |-> 0, average_rating |-> Exactly(0), top_genre |-> Unknown, latest_year |-> 0,
   top_5_genres |-> <<>>, yearly_stats |-> <<>>]

\* the dict returned from the except branch (search_service.py 575-585)
ZeroStats(req) ==
  [op |-> "service_dashboard", req |-> req, status |-> "ok",
   total_movies |-> 0, average_rating |-> Exactly(0), top_genre |-> Unknown, latest_year |-> 0,
   top_5_genres |-> <<>>, yearly_stats |-> <<>>, top_rated_movies |-> <<>>]

\* the dict get_dashboard_stats builds from the hashes it fetched
\* (search_service.py 458-585)
dashboard_stats_of(req, all_movies) ==
  LET years == with_value(all_movies, "year")
      genre_counts == valid_genre_counts(genres_of(all_movies))
  IN IF all_movies = <<>> THEN EmptyStats(req)
     ELSE IF stats_raise(all_movies) THEN ZeroStats(req)
     ELSE [op |-> "service_dashboard", req |-> req, status |-> "ok",
           total_movies |-> Len(all_movies),
           average_rating |-> average_of(ratings_of(all_movies)),
           top_genre |-> IF genre_counts # <<>> THEN top_of(genre_counts) ELSE Unknown,
           latest_year |-> IF years # <<>>
                           THEN MaxOf([i \in 1..Len(years) |-> int_of(years[i].year)[1]])
                           ELSE 0,
           top_5_genres |-> FirstN(sorted_by_count(genre_counts), 5),
           yearly_stats |-> yearly_stats_of(all_movies),
           top_rated_movies |-> top_rated_movies_of(all_movies)]

service_get_dashboard_stats(st, req) ==
  dashboard_stats_of(req, search(st, req.fault, <<"*">>, 0, DashboardLimit))

----------------------------------------------------------------------------
(* Query.get_dashboard_stats of the GraphQL resolvers (resolvers.py 451-556) *)

ResolverDashboardLimit == 1000

\* genres[genre] = genres.get(genre, 0) + 1 for every fetched hash
RECURSIVE all_genre_counts(_)
all_genre_counts(genres) ==
  IF genres = <<>> THEN <<>>
  ELSE count_value(all_genre_counts(SubSeq(genres, 1, Len(genres) - 1)), genres[Len(genres)])

\* int(year) if year else 0, under `except (ValueError, TypeError): pass`
year_int_of(raw) == IF TruthySeq(raw) THEN ParseInt(raw[1]) ELSE Some(0)

\* float(rating) if rating else 0, under the same except
rating_float_of(raw) == IF TruthySeq(raw) THEN ParseFloat(raw[1]) ELSE Some(0)

\* the years counted: 1900 < year_int < 2030
resolver_years(all_movies) ==
  LET ok == SelectSeq(all_movies, LAMBDA d : year_int_of(d.year) # None)
  IN {y \in {year_int_of(ok[i].year)[1] : i \in 1..Len(ok)} : y > 1900 /\ y < 2030}

\* the ratings appended: rating_float > 0
resolver_ratings(all_movies) ==
  LET ok == SelectSeq(all_movies,
                      LAMBDA d : rating_float_of(d.imdb_rating) # None
                                 /\ rating_float_of(d.imdb_rating)[1] > 0)
  IN [i \in 1..Len(ok) |-> rating_float_of(ok[i].imdb_rating)[1]]

\* sum(ratings) / len(ratings) if ratings else 0.0
resolver_average(ratings) ==
  IF ratings = <<>> THEN Exactly(0) ELSE [num |-> SumSeq(ratings), den |-> Len(ratings)]

\* get_rating_value: float(movie.get('imdb_rating', 0)), 0.0 when it raises
get_rating_value(d) == IF float_of(d.imdb_rating) = None THEN 0 ELSE float_of(d.imdb_rating)[1]

resolver_top_rated(all_movies) ==
  LET srt == FirstN(SortDesc([i \in 1..Len(all_movies) |->
                                [k |-> get_rating_value(all_movies[i]), x |-> all_movies[i]]]), 5)
  IN [i \in 1..Len(srt) |->
        [title |-> HashText(srt[i].x, "title"),
         year |-> IF year_int_of(srt[i].x.year) = None THEN 0 ELSE year_int_of(srt[i].x.year)[1],
         genre |-> HashText(srt[i].x, "genre"),
         rating |-> srt[i].k]]

resolver_yearly_stats(all_movies, top_5_genres, ratings) ==
  LET desc == DescendingSet(resolver_years(all_movies))
      years == [i \in 1..Len(desc) |-> desc[Len(desc) + 1 - i]]
      top3 == FirstN(top_5_genres, 3)
  IN [i \in 1..Len(years) |->
        [year |-> years[i],
         count |-> Cardinality({j \in 1..Len(all_movies) :
                                 year_int_of(all_movies[j].year) = Some(years[i])}),
         top_genres |-> [j \in 1..Len(top3) |-> top3[j].value],
         top_movies |-> <<>>,
         average_rating |-> resolver_average(ratings)]]

DefaultLatestYear == 2024

resolver_get_dashboard_stats(st, req) ==
  LET total_movies == get_document_count(st, req.fault)
      all_movies == search(st, req.fault, <<"*">>, 0, ResolverDashboardLimit)
      genres == all_genre_counts(genres_of(all_movies))
      ratings == resolver_ratings(all_movies)
      top_5_genres == FirstN(sorted_by_count(genres), 5)
  IN IF req.fault = "connect" THEN Failure("resolver_dashboard", req, "error", <<>>)
     ELSE [op |-> "resolver_dashboard", req |-> req, status |-> "ok",
           total_movies |-> total_movies,
           average_rating |-> resolver_average(ratings),
           top_genre |-> IF genres # <<>> THEN top_of(genres) ELSE Unknown,
           latest_year |-> IF resolver_years(all_movies) # {}
                           THEN MaxOf(DescendingSet(resolver_years(all_movies)))
                           ELSE DefaultLatestYear,
           top_5_genres |-> top_5_genres,
           yearly_stats |-> resolver_yearly_stats(all_movies, top_5_genres, ratings),
           top_rated_movies |-> resolver_top_rated(all_movies)]

----------------------------------------------------------------------------
(* Ingestion: cleanse_record, then RedisSearchService.index_batch *)

\* the characters of a literal
Chars(str) == [i \in 1..Len(str) |-> SubSeq(str, i, i)]

\* `if value` for a value of a JSON document
PyTruthy(x) ==
  CASE x.ty \in {"str", "list"} -> x.v # <<>>
    [] x.ty \in {"int", "float"} -> x.v # 0
    [] OTHER -> FALSE

\* movie_data[key] of cleanse_record for a scalar key: the metadata value when
\* it is truthy, None otherwise
cleansed_scalar(x) == IF PyTruthy(x) THEN x ELSE PyNone

\* movie_data['stars'] and movie_data['awards']: a list is joined with ', '
cleansed_list(x) ==
  IF ~PyTruthy(x) THEN PyNone
  ELSE IF x.ty = "list" THEN PyStr(Join(x.v, <<",", " ">>))
  ELSE x

\* the keys of genre_subgenre_map that the model's folder paths name
KnownGenres == {Chars("Action"), Chars("Comedy"), Chars("Drama")}

\* _is_year(text)
_is_year(text) == ParseInt(text) # None /\ 1900 <= ParseInt(text)[1] /\ ParseInt(text)[1] <= 2030

\* extract_genre_from_path over the parts of folder_path.split('/')
RECURSIVE extract_genre_from_path(_)
extract_genre_from_path(parts) ==
  IF parts = <<>> THEN Chars("unknown")
  ELSE LET part == Strip(Head(parts))
       IN IF part # <<>> /\ ~AllDigits(part) /\ ~_is_year(part) /\ part \in KnownGenres
          THEN part
          ELSE extract_genre_from_path(Tail(parts))

\* extract_year_from_path: the first part that is a year of the 1900s or 2000s
RECURSIVE extract_year_from_path(_)
extract_year_from_path(parts) ==
  IF parts = <<>> THEN 0
  ELSE IF Len(Head(parts)) = 4 /\ AllDigits(Head(parts))
          /\ SubSeq(Head(parts), 1, 2) \in {<<"1", "9">>, <<"2", "0">>}
       THEN NatVal(Head(parts))
       ELSE extract_year_from_path(Tail(parts))

\* cleanse_record(file_data, parsed_content), for the keys index_document reads
cleanse_record(file_data) ==
  [id |-> file_data.id,
   title |-> IF PyTruthy(file_data.metadata.title) THEN file_data.metadata.title
             ELSE PyStr(file_data.name),
   content |-> PyStr(file_data.extracted_text),
   genre |-> PyStr(extract_genre_from_path(file_data.folder_path)),
   year |-> PyInt(extract_year_from_path(file_data.folder_path)),
   imdb_rating |-> cleansed_scalar(file_data.metadata.imdb_rating),
   language |-> cleansed_scalar(file_data.metadata.language),
   production_house |-> cleansed_scalar(file_data.metadata.production_house),
   stars |-> cleansed_list(file_data.metadata.stars),
   awards |-> cleansed_list(file_data.metadata.awards)]

\* index_batch for one record: a record without id is skipped, and a record
\* index_document raises on is not written
index_batch(st, doc) ==
  IF doc.id = "" \/ index_document_raises(doc) THEN st
  ELSE Hset(st, doc_data(doc.id, doc))

\* the hash stored under a key, when there is one
stored(st, key) == SelectSeq(st, LAMBDA d : d.id = key)

----------------------------------------------------------------------------
(* The documents and the requests of the model *)

\* a dict handed to index_document with no key set
NoData ==
  [title |-> Absent, stars |-> Absent, awards |-> Absent, content |-> Absent,
   genre |-> Absent, language |-> Absent, production_house |-> Absent,
   year |-> Absent, imdb_rating |-> Absent]

\* the (document_id, data) pairs the ingestion scripts hand to index_document
Library ==
  << [id |-> "m1",
      data |-> [NoData EXCEPT !.title = PyStr(Chars("Inception")),
                              !.stars = PyList(<<Chars("Tom"), Chars("Ann")>>),
                              !.content = PyStr(Chars("inception dream")),
                              !.genre = PyStr(Chars("Action")),
                              !.language = PyStr(Chars("en")),
                              !.year = PyInt(2010),
                              !.imdb_rating = PyFloat(80)]],
     [id |-> "m2",
      data |-> [NoData EXCEPT !.title = PyStr(Chars("Heat")),
                              !.content = PyStr(Chars("heat")),
                              !.genre = PyStr(Chars("2014")),
                              !.language = PyStr(<<>>),
                              !.year = PyInt(2014)]],
     [id |-> "m3",
      data |-> [NoData EXCEPT !.title = PyStr(Chars("Up")),
                              !.stars = PyStr(Chars("Al")),
                              !.content = PyStr(Chars("inception")),
                              !.genre = PyStr(Unknown),
                              !.language = PyStr(Chars("en")),
                              !.year = PyInt(2010),
                              !.imdb_rating = PyFloat(60)]],
     [id |-> "m4",
      data |-> [NoData EXCEPT !.title = PyStr(Chars("Ran")),
                              !.content = PyStr(Chars("ran")),
                              !.genre = PyStr(Chars("1a2B3c4D5e6F7g8H9i")),
                              !.year = PyInt(1985),
                              !.imdb_rating = PyInt(0)]] >>

NoMetadata ==
  [title |-> Absent, imdb_rating |-> Absent, language |-> Absent,
   production_house |-> Absent, stars |-> Absent, awards |-> Absent]

FullMetadata ==
  [title |-> PyStr(Chars("Jaws")), imdb_rating |-> PyFloat(80),
   language |-> PyStr(Chars("en")), production_house |-> PyStr(Chars("Universal")),
   stars |-> PyList(<<Chars("Tom")>>), awards |-> PyList(<<Chars("Oscar")>>)]

JawsFile ==
  [id |-> "m6", name |-> Chars("jaws.json"), extracted_text |-> Chars("shark"),
   folder_path |-> <<Chars("movies"), Chars("Action"), Chars("1975")>>,
   metadata |-> FullMetadata]

\* the files the Google Drive connector fetches and parses
Files ==
  <<JawsFile,
   [JawsFile EXCEPT !.folder_path = <<>>,
                    !.metadata.stars = PyList(<<Chars("Tom"), Chars("Ann Lee")>>)],
   [JawsFile EXCEPT !.metadata.stars = PyStr(Chars("Tom"))],
   [JawsFile EXCEPT !.metadata.stars = PyList(<<>>)],
   [JawsFile EXCEPT !.metadata.awards = Absent],
   [JawsFile EXCEPT !.metadata = NoMetadata],
   [JawsFile EXCEPT !.metadata.imdb_rating = PyStr(Chars("N/A"))],
   [JawsFile EXCEPT !.id = ""]>>

Faults == {"none", "connect", "command"}

Texts ==
  {<<>>, Chars("inception"), Chars("in\"c"), <<"i", "n", BS, DQ, "c">>, Chars("o'n")}

ActionGenre == Chars("Action")

\* SearchInput() with no argument set (types.py 180-195)
NoSearch ==
  [query |-> <<>>, genre |-> None, subgenre |-> None, language |-> None, country |-> None,
   production_house |-> None, director |-> None, actor |-> None,
   year_from |-> None, year_to |-> None, rating_min |-> None, rating_max |-> None]

SearchInputs ==
  {[NoSearch EXCEPT !.query = t, !.genre = g] : t \in Texts, g \in {None, Some(ActionGenre)}}
  \cup {[NoSearch EXCEPT !.year_from = Some(2010)],
        [NoSearch EXCEPT !.rating_min = Some(70), !.rating_max = Some(0)],
        [NoSearch EXCEPT !.genre = Some(<<>>)]}

Paginations ==
  {[page |-> p, page_size |-> z] : p \in (-1)..MaxPage, z \in {-1, 0, 1, 2, 101}}

SearchRequests ==
  {[search |-> s, pagination |-> None, sort |-> None, fault |-> f] :
     s \in SearchInputs, f \in Faults}
  \cup {[search |-> s, pagination |-> Some(pg), sort |-> None, fault |-> "none"] :
          s \in {NoSearch, [NoSearch EXCEPT !.query = Chars("inception")]},
          pg \in Paginations}
  \cup {[search |-> NoSearch, pagination |-> None,
         sort |-> Some([field |-> f, direction |-> d]), fault |-> "none"] :
          f \in {"year", "genre"}, d \in {Chars("asc"), Chars("DESC")}}

\* MovieFilters() with no argument set (types.py 243-262)
NoFilters ==
  [genres |-> None, subgenres |-> None, languages |-> None, production_houses |-> None,
   sources |-> None, year_range |-> None, rating_range |-> None, popularity_range |-> None,
   director |-> None, writer |-> None, stars |-> None]

FilterInputs ==
  {None, Some(NoFilters), Some([NoFilters EXCEPT !.genres = Some(<<ActionGenre>>)]),
   Some([NoFilters EXCEPT !.year_range = Some([min |-> Some(2010), max |-> None])]),
   Some([NoFilters EXCEPT !.year_range = Some([min |-> None, max |-> None])]),
   Some([NoFilters EXCEPT !.rating_range = Some([min |-> None, max |-> Some(0)])])}

\* AdvancedSearchInput() with its defaults (types.py 264-283)
DefaultAdvanced ==
  [query |-> Some(<<>>), filters |-> None, page |-> 1, page_size |-> 20,
   max_page_size |-> 1000, sort_field |-> Some(<<"relevance">>),
   sort_direction |-> Some(Chars("desc")), include_facets |-> FALSE, fault |-> "none"]

AdvancedRequests ==
  {[DefaultAdvanced EXCEPT !.query = q, !.filters = f] :
     q \in {None} \cup {Some(t) : t \in Texts}, f \in FilterInputs}
  \cup {[DefaultAdvanced EXCEPT !.query = q, !.include_facets = TRUE] :
          q \in {None, Some(Chars("inception"))}}
  \cup {[DefaultAdvanced EXCEPT !.page = pg.page, !.page_size = pg.page_size] :
          pg \in Paginations}
  \cup {[DefaultAdvanced EXCEPT !.fault = f, !.include_facets = b] :
          f \in Faults, b \in BOOLEAN}
  \cup {[DefaultAdvanced EXCEPT !.sort_field = Some(<<"year">>), !.sort_direction = d,
                                !.max_page_size = m] :
          d \in {Some(Chars("asc")), Some(Chars("ASC")), None}, m \in {0, 10}}

\* MovieSearchRequest() with its defaults (movies.py 25-56)
DefaultPost ==
  [query |-> None, page |-> 1, page_size |-> 20, sort_field |-> Some(<<"relevance">>),
   sort_direction |-> Some(Chars("desc")),
   genres |-> None, subgenres |-> None, languages |-> None, production_houses |-> None,
   sources |-> None, min_year |-> None, max_year |-> None, min_rating |-> None,
   max_rating |-> None, min_popularity |-> None, max_popularity |-> None,
   include_facets |-> FALSE, fault |-> "none"]

PostRequests ==
  {[DefaultPost EXCEPT !.query = q, !.genres = g] :
     q \in {None} \cup {Some(t) : t \in Texts},
     g \in {None, Some(<<>>), Some(<<ActionGenre>>)}}
  \cup {[DefaultPost EXCEPT !.page = pg.page, !.page_size = pg.page_size] :
          pg \in Paginations}
  \cup {[DefaultPost EXCEPT !.fault = f, !.include_facets = b] : f \in Faults, b \in BOOLEAN}
  \cup {[DefaultPost EXCEPT !.min_year = y, !.sort_field = Some(<<"year">>),
                            !.sort_direction = d] :
          y \in {None, Some(2010), Some(1800)}, d \in {Some(Chars("desc")), Some(Chars("ASC"))}}

\* the query parameters of GET /api/movies/search with their defaults
DefaultGet ==
  [q |-> None, page |-> 1, page_size |-> 20, sort_field |-> Some(<<"relevance">>),
   sort_direction |-> Some(Chars("desc")),
   genres |-> None, subgenres |-> None, languages |-> None, production_houses |-> None,
   sources |-> None, min_year |-> None, max_year |-> None, min_rating |-> None,
   max_rating |-> None, min_popularity |-> None, max_popularity |-> None,
   director |-> None, writer |-> None, stars |-> None, country |-> None, awards |-> None,
   fault |-> "none"]

GetRequests ==
  {[DefaultGet EXCEPT !.q = q, !.genres = g] :
     q \in {None} \cup {Some(t) : t \in Texts},
     g \in {None, Some(<<>>), Some(ActionGenre), Some(Chars("Comedy, Action"))}}
  \cup {[DefaultGet EXCEPT !.page = pg.page, !.page_size = pg.page_size] :
          pg \in Paginations}
  \cup {[DefaultGet EXCEPT !.fault = f] : f \in Faults}
  \cup {[DefaultGet EXCEPT !.min_year = y, !.max_rating = r, !.sort_field = Some(<<"year">>)] :
          y \in {None, Some(2010), Some(1800)}, r \in {None, Some(70)}}

----------------------------------------------------------------------------
(* The state machine.  store is the collection; resp is the answer of the  *)
(* handler that ran last, until it is delivered.                            *)

Idle == [op |-> "idle"]

\* a request slot of the server: free, or the locals of the coroutine that
\* serves the request in it
IdleTask ==
  [pc |-> "idle", kind |-> "none", req |-> <<>>, query |-> <<>>, results |-> <<>>,
   total_count |-> 0, answer |-> Idle, overlapped |-> FALSE]

Tasks == 1..MaxTasks

NoTasks == [t \in Tasks |-> IdleTask]

Init == store = <<>> /\ resp = Idle /\ inflight = NoTasks

HasRoom(key) == Len(store) < MaxDocs \/ stored(store, key) # <<>>

\* an ingestion script hands one (document_id, data) pair to index_document
IndexDocument ==
  \E i \in 1..Len(Library) :
    /\ resp = Idle
    /\ HasRoom("movie:" \o Library[i].id)
    /\ ~index_document_raises(Library[i].data)
    /\ store' = Hset(store, doc_data(Library[i].id, Library[i].data))
    /\ UNCHANGED <<resp, inflight>>

\* the Google Drive connector cleanses one fetched file and indexes it
Ingest ==
  \E n \in 1..Len(Files) :
    LET file_data == Files[n] IN
    /\ resp = Idle
    /\ HasRoom("movie:" \o file_data.id)
    /\ store' = index_batch(store, cleanse_record(file_data))
    /\ resp' = [op |-> "ingest", req |-> file_data,
                status |-> IF file_data.id = "" THEN "skipped"
                           ELSE IF index_document_raises(cleanse_record(file_data))
                             THEN "failed"
                           ELSE "ok",
                key |-> "movie:" \o file_data.id]
    /\ UNCHANGED inflight

DeleteDocument ==
  \E i \in 1..Len(store) :
    /\ resp = Idle
    /\ store' = delete_document(store, store[i].id)
    /\ UNCHANGED <<resp, inflight>>

SearchMovies ==
  \E req \in SearchRequests :
    resp = Idle /\ resp' = search_movies(store, req) /\ UNCHANGED <<store, inflight>>

AdvancedSearchMovies ==
  \E req \in AdvancedRequests :
    resp = Idle /\ resp' = advanced_search_movies(store, req) /\ UNCHANGED <<store, inflight>>

PostSearch ==
  \E req \in PostRequests :
    resp = Idle /\ resp' = post_search(store, req) /\ UNCHANGED <<store, inflight>>

GetSearch ==
  \E req \in GetRequests :
    resp = Idle /\ resp' = search_movies_get(store, req) /\ UNCHANGED <<store, inflight>>

ServiceDashboard ==
  \E f \in {"none", "command"} :
    resp = Idle /\ resp' = service_get_dashboard_stats(store, [fault |-> f]) /\ UNCHANGED <<store, inflight>>

ResolverDashboard ==
  \E f \in Faults :
    resp = Idle /\ resp' = resolver_get_dashboard_stats(store, [fault |-> f]) /\ UNCHANGED <<store, inflight>>

\* the answer reaches the caller
Deliver == resp # Idle /\ resp' = Idle /\ UNCHANGED <<store, inflight>>

Next ==
  \/ IndexDocument
  \/ Ingest
  \/ DeleteDocument
  \/ SearchMovies
  \/ AdvancedSearchMovies
  \/ PostSearch
  \/ GetSearch
  \/ ServiceDashboard
  \/ ResolverDashboard
  \/ Deliver

Spec == Init /\ [][Next]_vars

----------------------------------------------------------------------------
(* What the properties below speak about *)

SearchOps == {"search_movies", "advanced_search_movies", "post_search", "search_movies_get"}

DashboardOps == {"service_dashboard", "resolver_dashboard"}

\* the page and the page size a search request asks for
ReqPage(r) ==
  IF r.op = "search_movies"
  THEN (IF r.req.pagination = None THEN 1 ELSE r.req.pagination[1].page)
  ELSE r.req.page

ReqPageSize(r) ==
  IF r.op = "search_movies"
  THEN (IF r.req.pagination = None THEN 20 ELSE r.req.pagination[1].page_size)
  ELSE r.req.page_size

\* the greatest page size the operation is documented to serve
ReqMax(r) ==
  IF r.op = "advanced_search_movies" /\ r.req.max_page_size # 0
  THEN r.req.max_page_size
  ELSE MaxPageSize

\* the free text of a search request
ReqText(r) ==
  CASE r.op = "search_movies" -> r.req.search.query
    [] r.op = "search_movies_get" -> (IF r.req.q = None THEN <<>> ELSE r.req.q[1])
    [] OTHER -> (IF r.req.query = None THEN <<>> ELSE r.req.query[1])

Unset(x) == x = None \/ x = Some(<<>>)

\* no filter of the request carries a value
NoFilterSet(r) ==
  CASE r.op = "search_movies" ->
         /\ \A f \in {"genre", "subgenre", "language", "country", "production_house",
                      "director", "actor"} : Unset(r.req.search[f])
         /\ \A f \in {"year_from", "year_to", "rating_min", "rating_max"} :
              r.req.search[f] = None
    [] r.op = "advanced_search_movies" ->
         r.req.filters = None \/ r.req.filters = Some(NoFilters)
    [] r.op = "post_search" ->
         /\ \A f \in {"genres", "subgenres", "languages", "production_houses", "sources"} :
              Unset(r.req[f])
         /\ \A f \in {"min_year", "max_year", "min_rating", "max_rating",
                      "min_popularity", "max_popularity"} : r.req[f] = None
    [] OTHER ->
         /\ \A f \in {"genres", "subgenres", "languages", "production_houses", "sources",
                      "director", "writer", "stars", "country", "awards"} : Unset(r.req[f])
         /\ \A f \in {"min_year", "max_year", "min_rating", "max_rating",
                      "min_popularity", "max_popularity"} : r.req[f] = None

\* ceil(total / size) for size >= 1
Ceil(total, size) ==
  CHOOSE n \in 0..total : n * size >= total /\ (n = 0 \/ (n - 1) * size < total)

----------------------------------------------------------------------------
(* Pagination *)

\* C1: for a requested page >= 1 and a requested page size in [1, max], every
\* search operation that answers fetches from offset (page-1)*pageSize with
\* that page size, and reports totalPages = ceil(totalCount/pageSize) (0 for
\* no match), hasNext exactly when page < totalPages and hasPrevious exactly
\* when page > 1.
C1_PaginationArithmetic ==
  (/\ resp.op \in SearchOps
   /\ resp.status = "ok"
   /\ ReqPage(resp) >= 1
   /\ ReqPageSize(resp) >= 1 /\ ReqPageSize(resp) <= ReqMax(resp))
  => /\ resp.calls[1].offset + ReqPageSize(resp) = ReqPage(resp) * ReqPageSize(resp)
     /\ resp.calls[1].limit = ReqPageSize(resp)
     /\ resp.total_count >= 0
     /\ resp.total_pages = Ceil(resp.total_count, ReqPageSize(resp))
     /\ resp.has_next = (ReqPage(resp) < resp.total_pages)
     /\ resp.has_previous = (ReqPage(resp) > 1)

\* a second page of three, one record a page: both neighbours exist
C1_Witness ==
  /\ resp.op \in SearchOps
  /\ resp.status = "ok"
  /\ ReqPage(resp) = 2 /\ ReqPageSize(resp) = 1
  /\ resp.total_count = 3 /\ resp.total_pages = 3
  /\ resp.calls[1].offset = 1
  /\ resp.has_next /\ resp.has_previous

\* C2: in every page a search operation returns, total_count is the number
\* of documents of the store that match the query and filters of the request.
C2_TotalCountIsMatchCount ==
  (/\ resp.op \in SearchOps
   /\ resp.status = "ok"
   /\ resp.req.fault = "none"
   /\ ~HasUnescapedQuote(resp.calls[1].query))
  => resp.total_count = Len(Matching(store, resp.calls[1].query))

----------------------------------------------------------------------------
(* Query building *)

\* C3: for a free text holding a double or a single quote, no query sent to
\* the store holds one of these characters unescaped.
C3_QuotesEscaped ==
  (/\ resp.op \in SearchOps
   /\ \E i \in 1..Len(ReqText(resp)) : ReqText(resp)[i] \in {DQ, SQ})
  => \A i \in 1..Len(resp.calls) : ~HasUnescapedQuote(resp.calls[i].query)

\* C4: a search request with no free text and no filter set, once it has
\* passed the request validation and the store is reachable, has the query
\* `*` and nothing else built and sent for it.
C4_MatchAllWhenNothingSet ==
  (/\ resp.op \in SearchOps
   /\ resp.status # "rejected"
   /\ resp.req.fault = "none"
   /\ ReqText(resp) = <<>>
   /\ NoFilterSet(resp))
  => resp.calls # <<>> /\ resp.calls[1].query = <<"*">>

----------------------------------------------------------------------------
(* Dashboards and facets *)

\* the ratings of the stored documents that are greater than 0, in tenths
PositiveRatings ==
  LET rated == SelectSeq(store, LAMBDA d : /\ ParseFloat(HashText(d, "imdb_rating")) # None
                                          /\ ParseFloat(HashText(d, "imdb_rating"))[1] > 0)
  IN [i \in 1..Len(rated) |-> ParseFloat(HashText(rated[i], "imdb_rating"))[1]]

\* C5: the dashboard average rating, to one decimal, is the mean of exactly
\* the ratings that are greater than 0, and 0.0 when there is none.
C5_AverageOverPositiveRatings ==
  (/\ resp.op \in DashboardOps
   /\ resp.status = "ok"
   /\ resp.req.fault = "none")
  => Round1(resp.average_rating.num, resp.average_rating.den)
       = (IF PositiveRatings = <<>> THEN 0
          ELSE Round1(SumSeq(PositiveRatings), Len(PositiveRatings)))

\* a genre value the dashboards may count: not empty, not "Unknown", not an
\* integer in [1900, 2030], not longer than 15 characters and more than 80%
\* alphanumeric
GenreCountable(g) ==
  /\ g # <<>>
  /\ g # Chars("Unknown")
  /\ ~(AllDigits(g) /\ NatVal(g) >= 1900 /\ NatVal(g) <= 2030)
  /\ ~(Len(g) > 15
       /\ 5 * Cardinality({i \in 1..Len(g) : g[i] \in Letters \/ IsDigit(g[i])}) > 4 * Len(g))

Aggregated(call) ==
  IF resp.req.fault = "command" THEN <<>>
  ELSE SubSeq(store, 1, IF call.limit < Len(store) THEN call.limit ELSE Len(store))

FacetFields == {"genre", "language", "production_house"}

\* C7: for every facet field, the counts of the field's table add up to the
\* number of aggregated records with a non-empty value for the field, and a
\* field no aggregated record has a value for has no table.
C7_FacetCountsAddUp ==
  (/\ resp.op \in {"advanced_search_movies", "post_search"}
   /\ resp.status = "ok"
   /\ resp.facets # None)
  => \A f \in FacetFields :
       LET with == Cardinality({i \in 1..Len(Aggregated(resp.calls[2])) :
                                  HashText(Aggregated(resp.calls[2])[i], f) # <<>>})
           tables == SelectSeq(resp.facets[1], LAMBDA t : t.field = f)
       IN IF with = 0 THEN tables = <<>>
          ELSE /\ Len(tables) = 1
               /\ SumSeq([i \in 1..Len(tables[1].values) |-> tables[1].values[i].count]) = with

\* three documents were aggregated, one of them with an empty language and
\* two with the same language: the language table has one entry counting 2
C7_Witness ==
  /\ resp.op = "post_search"
  /\ resp.status = "ok"
  /\ resp.facets # None
  /\ Len(store) = 3
  /\ \E i \in 1..Len(store) : HashText(store[i], "language") = <<>>
  /\ \E i \in 1..Len(resp.facets[1]) :
       /\ resp.facets[1][i].field = "language"
       /\ Len(resp.facets[1][i].values) = 1
       /\ resp.facets[1][i].values[1].count = 2

----------------------------------------------------------------------------
(* Multi-value fields through the store *)

\* no entry of the list holds the delimiter ", "
DelimiterFree(L) ==
  \A i \in 1..Len(L) : \A j \in 1..(Len(L[i]) - 1) : ~(L[i][j] = "," /\ L[i][j + 1] = " ")

\* C8: a file whose stars (awards) are a list L with no entry holding ", ",
\* once cleansed and indexed, is mapped for a search result with stars
\* (awards) equal to L.
C8_ListRoundTrip ==
  (/\ resp.op = "ingest"
   /\ resp.status = "ok")
  => \A f \in {"stars", "awards"} :
       (resp.req.metadata[f].ty = "list" /\ DelimiterFree(resp.req.metadata[f].v))
       => to_movie(stored(store, resp.key)[1])[f] = resp.req.metadata[f].v

----------------------------------------------------------------------------
(* Pages beyond the end and out-of-range pagination inputs *)

\* C9: a page beyond the last one is answered with no record, has_next false
\* and has_previous true beyond page 1; in search_movies such a request, for
\* a page size >= 1 and a reachable store, is answered and not failed.
C9_PageBeyondTheEnd ==
  resp.op \in SearchOps
  => /\ (resp.status = "ok" /\ resp.page >= resp.total_pages + 1)
        => /\ resp.movies = <<>>
           /\ ~resp.has_next
           /\ resp.has_previous = (resp.page > 1)
     /\ (/\ resp.op = "search_movies"
         /\ resp.req.fault = "none"
         /\ ReqPage(resp) >= 1 /\ ReqPageSize(resp) >= 1
         /\ (ReqPage(resp) - 1) * ReqPageSize(resp) >= Len(store))
        => /\ resp.status = "ok"
           /\ resp.page >= resp.total_pages + 1

\* page 3 of two matching documents, one a page
C9_Witness ==
  /\ resp.op = "search_movies"
  /\ resp.status = "ok"
  /\ resp.page = 3 /\ resp.page_size = 1
  /\ resp.total_count = 2 /\ resp.total_pages = 2
  /\ resp.movies = <<>>
  /\ ~resp.has_next /\ resp.has_previous

\* C10: no search request is turned away or failed for its page or page
\* size: with a reachable store and no filter set it is answered, with an
\* effective page >= 1 and an effective page size in [1, max].
C10_PaginationCoerced ==
  (/\ resp.op \in SearchOps
   /\ resp.req.fault = "none"
   /\ NoFilterSet(resp))
  => /\ resp.status = "ok"
     /\ resp.page >= 1
     /\ resp.page_size >= 1 /\ resp.page_size <= ReqMax(resp)

----------------------------------------------------------------------------
(* Failures of the store and malformed records *)

\* C11: when the store call of a search or dashboard request fails (the
\* connection cannot be made, or the command raises), the request is answered
\* with a failure and never with a successful result.
C11_StoreFailureSurfaced ==
  (/\ resp.op \in SearchOps \cup DashboardOps
   /\ resp.status # "rejected"
   /\ resp.req.fault # "none")
  => resp.status = "error"

\* the hashes the first store call of the answered request fetched
Fetched == search(store, "none", resp.calls[1].query, resp.calls[1].offset, resp.calls[1].limit)

\* the rating (in tenths) and the year a well-behaved mapper gives a hash:
\* the parsed number, and the default 0 when the text does not parse
CoercedRating(d) == IF float_of(d.imdb_rating) = None THEN 0 ELSE float_of(d.imdb_rating)[1]

CoercedYear(d) == IF int_of(d.year) = None THEN 0 ELSE int_of(d.year)[1]

\* C12: a stored document whose rating or year does not parse never makes a
\* search or a dashboard fail: the search answers with every record of the
\* page, the malformed number replaced by 0, and the dashboard still counts
\* every record.
C12_MalformedRecordTolerated ==
  /\ (/\ resp.op \in SearchOps
      /\ resp.req.fault = "none"
      /\ resp.calls # <<>>
      /\ \E i \in 1..Len(Fetched) : movie_raises(Fetched[i]))
     => /\ resp.status = "ok"
        /\ Len(resp.movies) = Len(Fetched)
        /\ \A i \in 1..Len(Fetched) :
             /\ resp.movies[i].imdb_rating = CoercedRating(Fetched[i])
             /\ resp.movies[i].year = CoercedYear(Fetched[i])
  /\ (/\ resp.op \in DashboardOps
      /\ resp.req.fault = "none"
      /\ \E i \in 1..Len(store) : movie_raises(store[i]))
     => resp.status = "ok" /\ resp.total_movies = Len(store)

----------------------------------------------------------------------------
(* Query compilation at every call site *)

\* q begins with p
StartsWith(q, p) == Len(q) >= Len(p) /\ SubSeq(q, 1, Len(p)) = p

\* C13: at every call site, a request with a non-empty free text has every
\* query it sends to the store begin with the prefix-OR clause
\* `(@content:t* | @stars:t* | @director:t* | @writer:t*)` over that text
\* (taken as typed or with its quotes escaped).
C13_FreeTextIsPrefixOr ==
  (/\ resp.op \in SearchOps
   /\ ReqText(resp) # <<>>)
  => \A i \in 1..Len(resp.calls) :
       \/ StartsWith(resp.calls[i].query, text_search(ReqText(resp)))
       \/ StartsWith(resp.calls[i].query, text_search(escaped_query(ReqText(resp))))

\* the number of places of q where p occurs
Occurrences(q, p) ==
  Cardinality({i \in 1..(Len(q) - Len(p) + 1) : SubSeq(q, i, i + Len(p) - 1) = p})

\* the tag fields of a request, and the store field each one filters
TagFields == {"genres", "subgenres", "languages", "production_houses", "sources"}

TagName(f) ==
  CASE f = "genres" -> "genre"
    [] f = "subgenres" -> "subgenre"
    [] f = "languages" -> "language"
    [] f = "production_houses" -> "production_house"
    [] f = "sources" -> "source"

\* the values a request selects for tag field f: the list given (GraphQL,
\* POST), or the comma-separated values of the parameter (GET)
SelectedTags(r, f) ==
  CASE r.op = "advanced_search_movies" ->
         (IF r.req.filters = None \/ r.req.filters[1][f] = None
          THEN <<>> ELSE r.req.filters[1][f][1])
    [] r.op = "post_search" -> (IF r.req[f] = None THEN <<>> ELSE r.req[f][1])
    [] r.op = "search_movies_get" ->
         (IF Unset(r.req[f]) THEN <<>>
          ELSE LET parts == Split(r.req[f][1], <<",">>) IN
               [i \in 1..Len(parts) |-> Strip(parts[i])])

\* C14: a valid request that selects values for a tag field has a query sent
\* for it, and every query sent holds, after a single space, exactly one group
\* `(@field:{v1} OR @field:{v2} ...)` with one brace-wrapped token per selected
\* value; a tag field with no selected value has no token in the query.
C14_TagGroups ==
  (/\ resp.op \in {"advanced_search_movies", "post_search", "search_movies_get"}
   /\ resp.status # "rejected"
   /\ resp.req.fault = "none")
  => /\ (\E f \in TagFields : SelectedTags(resp, f) # <<>>) => resp.calls # <<>>
     /\ \A i \in 1..Len(resp.calls) : \A f \in TagFields :
          LET q == resp.calls[i].query
              values == SelectedTags(resp, f)
              token == "@" \o TagName(f) \o ":{" IN
          IF values # <<>>
          THEN /\ Occurrences(q, <<" ">> \o tag_group(TagName(f), values)) = 1
               /\ Occurrences(q, <<token>>) = Len(values)
          ELSE Occurrences(q, <<token>>) = 0

\* the bounds a request gives for a numeric field (None when missing)
ReqRange(r, field) ==
  LET names == CASE field = "year" -> [lo |-> "min_year", hi |-> "max_year", range |-> "year_range",
                                       from |-> "year_from", to |-> "year_to"]
                 [] field = "imdb_rating" -> [lo |-> "min_rating", hi |-> "max_rating",
                                              range |-> "rating_range",
                                              from |-> "rating_min", to |-> "rating_max"]
                 [] field = "popu" -> [lo |-> "min_popularity", hi |-> "max_popularity",
                                       range |-> "popularity_range", from |-> "", to |-> ""]
      none == [lo |-> None, hi |-> None] IN
  CASE r.op = "search_movies" ->
         (IF field = "popu" THEN none
          ELSE [lo |-> r.req.search[names.from], hi |-> r.req.search[names.to]])
    [] r.op = "advanced_search_movies" ->
         (IF r.req.filters = None \/ r.req.filters[1][names.range] = None THEN none
          ELSE [lo |-> r.req.filters[1][names.range][1].min,
                hi |-> r.req.filters[1][names.range][1].max])
    [] OTHER -> [lo |-> r.req[names.lo], hi |-> r.req[names.hi]]

\* the floor and the ceiling of a numeric field's domain
DomainFloor(field) == IF field = "year" THEN IntChars(1900) ELSE IntChars(0)

DomainCeiling(field) ==
  CASE field = "year" -> IntChars(2030)
    [] field = "imdb_rating" -> IntChars(10)
    [] field = "popu" -> IntChars(1000000)

\* `@field:[min max]` with the missing bounds replaced by the domain's
RangeClause(field, range) ==
  LET str(x) == IF field = "imdb_rating" THEN FloatChars(x) ELSE IntChars(x) IN
  <<"@" \o field \o ":[">>
    \o (IF range.lo = None THEN DomainFloor(field) ELSE str(range.lo[1]))
    \o <<" ">>
    \o (IF range.hi = None THEN DomainCeiling(field) ELSE str(range.hi[1]))
    \o <<"]">>

\* C15: every query sent for a request that gives a bound of a numeric field
\* holds the clause `@field:[min max]` once, with a missing minimum replaced
\* by the domain floor (year 1900, rating 0, popularity 0) and a missing
\* maximum by the domain ceiling (year 2030, rating 10, popularity 1000000).
C15_RangeDefaults ==
  resp.op \in SearchOps
  => \A i \in 1..Len(resp.calls) : \A field \in {"year", "imdb_rating", "popu"} :
       LET range == ReqRange(resp, field) IN
       (range.lo # None \/ range.hi # None)
       => Occurrences(resp.calls[i].query, RangeClause(field, range)) = 1

\* the sort field and the sort direction a search request asks for
ReqSortField(r) ==
  IF r.op = "search_movies"
  THEN (IF r.req.sort = None THEN "relevance" ELSE r.req.sort[1].field)
  ELSE (IF r.req.sort_field = None THEN "relevance" ELSE Flatten(r.req.sort_field[1]))

ReqSortDirection(r) ==
  IF r.op = "search_movies"
  THEN (IF r.req.sort = None THEN Chars("desc") ELSE r.req.sort[1].direction)
  ELSE (IF r.req.sort_direction = None THEN Chars("desc") ELSE r.req.sort_direction[1])

\* C16: the search call of every request carries no sort clause when the sort
\* field asked for is "relevance", and otherwise the clause `field ASC` when
\* the direction asked for is "asc" in any letter case, `field DESC` if not.
C16_SortClause ==
  (resp.op \in SearchOps /\ resp.calls # <<>>)
  => resp.calls[1].sort_by =
       IF ReqSortField(resp) = "relevance" THEN None
       ELSE Some(ReqSortField(resp) \o " "
                 \o (IF Lower(ReqSortDirection(resp)) = Chars("asc") THEN "ASC" ELSE "DESC"))

----------------------------------------------------------------------------
(* Mapping of multi-value fields *)

\* the list a raw multi-value field stands for: the parts between ", " that
\* are not empty, and no part when the field is absent
MultiValue(raw) ==
  IF raw = None THEN <<>>
  ELSE SelectSeq(Split(raw[1], <<",", " ">>), LAMBDA token : token # <<>>)

\* C17: at every call site, each movie of an answered search has for stars and
\* for awards the list its stored hash stands for: the stored text split on
\* ", " with the empty tokens dropped, and the empty list for an absent field.
C17_MultiValueMapping ==
  (/\ resp.op \in SearchOps
   /\ resp.status = "ok"
   /\ resp.req.fault = "none")
  => \A i \in 1..Len(resp.movies) :
       /\ resp.movies[i].stars = MultiValue(Fetched[i].stars)
       /\ resp.movies[i].awards = MultiValue(Fetched[i].awards)

----------------------------------------------------------------------------
(* Dashboard lists *)

\* the stored records with a rating greater than 0 and a non-empty title,
\* as [title, rating], by rating descending and in store order within a rating
TopRated ==
  LET rated == SelectSeq(store, LAMBDA d : /\ HashText(d, "title") # <<>>
                                          /\ ParseFloat(HashText(d, "imdb_rating")) # None
                                          /\ ParseFloat(HashText(d, "imdb_rating"))[1] > 0)
      srt == SortDesc([i \in 1..Len(rated) |->
                         [k |-> ParseFloat(HashText(rated[i], "imdb_rating"))[1],
                          x |-> HashText(rated[i], "title")]])
  IN [i \in 1..Len(srt) |-> [title |-> srt[i].x, rating |-> srt[i].k]]

\* C18: over a non-empty collection whose numbers all parse, the top-rated
\* list of a dashboard is exactly the records with a positive rating and a
\* non-empty title, by rating descending, equal ratings in their input order.
C18_TopRatedList ==
  (/\ resp.op \in DashboardOps
   /\ resp.status = "ok"
   /\ resp.req.fault = "none"
   /\ store # <<>>
   /\ \A i \in 1..Len(store) : ~movie_raises(store[i]))
  => [i \in 1..Len(resp.top_rated_movies) |->
        [title |-> resp.top_rated_movies[i].title, rating |-> resp.top_rated_movies[i].rating]]
       = TopRated

\* the fields of a dashboard answer over a non-empty collection
StatsFields ==
  {"op", "req", "status", "total_movies", "average_rating", "top_genre", "latest_year",
   "top_5_genres", "yearly_stats", "top_rated_movies"}

\* C19: over an empty collection a dashboard answers, without failing, total 0,
\* average rating 0.0, top genre "Unknown", latest year 0 and an empty list
\* for top genres, yearly statistics and top-rated movies, with the fields an
\* answer over a non-empty collection has.
C19_EmptyDashboard ==
  (/\ resp.op \in DashboardOps
   /\ resp.req.fault = "none"
   /\ store = <<>>)
  => /\ resp.status = "ok"
     /\ DOMAIN resp = StatsFields
     /\ resp.total_movies = 0
     /\ Round1(resp.average_rating.num, resp.average_rating.den) = 0
     /\ resp.top_genre = Unknown
     /\ resp.latest_year = 0
     /\ resp.top_5_genres = <<>>
     /\ resp.yearly_stats = <<>>
     /\ resp.top_rated_movies = <<>>

----------------------------------------------------------------------------
(* Requests served together.  Each request runs in its own coroutine with  *)
(* its own SearchService and RedisSearchService (resolvers.py 56,          *)
(* search_service.py 27); what a coroutine keeps between two store calls   *)
(* is in its slot of inflight.  The collection is written only while no    *)
(* request is in flight.                                                   *)

ConcurrentSearches ==
  {[search |-> s, pagination |-> None, sort |-> None, fault |-> "none"] :
     s \in {NoSearch, [NoSearch EXCEPT !.query = Chars("inception")]}}
  \cup {[search |-> NoSearch, pagination |-> None, sort |-> None, fault |-> f] :
          f \in {"connect", "command"}}

\* some other request is between its start and its answer
OthersRunning(t) == \E u \in Tasks \ {t} : inflight[u].pc \notin {"idle", "done"}

\* task t moves to pc with the locals `changes` written
Step(t, changes) ==
  inflight' = [inflight EXCEPT ![t] = [changes EXCEPT !.overlapped = @ \/ OthersRunning(t)]]

\* the results a task read with the last store call it made
shared_results(tasks, t) ==
  LET read == {u \in Tasks : tasks[u].pc \in {"searched", "counted"}} IN
  IF read = {} THEN <<>> ELSE tasks[CHOOSE u \in read : \A v \in read : u <= v].results

\* `results`, a local of the coroutine (search_service.py 183-188, 456)
task_results(tasks, t) == tasks[t].results

\* Query.search_movies up to the store call: SearchService() and
\* build_search_query (resolvers.py 56-72)
StartSearch(t) ==
  \E req \in ConcurrentSearches :
    /\ inflight[t].pc = "idle"
    /\ Step(t, IF req.fault = "connect"
               THEN [IdleTask EXCEPT !.pc = "done", !.kind = "search", !.req = req,
                                     !.answer = search_movies_answer(req, <<>>, 0)]
               ELSE [IdleTask EXCEPT !.pc = "built", !.kind = "search", !.req = req,
                                     !.query = build_search_query(req.search)])
    /\ UNCHANGED <<store, resp>>

\* SearchService.get_dashboard_stats is entered
StartDashboard(t) ==
  /\ inflight[t].pc = "idle"
  /\ Step(t, [IdleTask EXCEPT !.pc = "entered", !.kind = "dashboard",
                              !.req = [fault |-> "none"]])
  /\ UNCHANGED <<store, resp>>

\* results = self.redis_service.search(...) (search_service.py 183-188)
RunSearch(t) ==
  /\ inflight[t].pc = "built"
  /\ Step(t, [inflight[t] EXCEPT
                !.pc = "searched",
                !.results = search(store, inflight[t].req.fault, inflight[t].query,
                                   offset_of(search_page(inflight[t].req),
                                             search_page_size(inflight[t].req)),
                                   search_page_size(inflight[t].req))])
  /\ UNCHANGED <<store, resp>>

\* total_count = self._get_total_count(query) (search_service.py 193)
CountTotal(t) ==
  /\ inflight[t].pc = "searched"
  /\ Step(t, [inflight[t] EXCEPT
                !.pc = "counted",
                !.total_count = _get_total_count(store, inflight[t].req.fault,
                                                 inflight[t].query)])
  /\ UNCHANGED <<store, resp>>

\* all_movies = self.redis_service.search("*", limit=10000) (search_service.py 456)
FetchAll(t) ==
  /\ inflight[t].pc = "entered"
  /\ Step(t, [inflight[t] EXCEPT
                !.pc = "counted",
                !.results = search(store, inflight[t].req.fault, <<"*">>, 0, DashboardLimit)])
  /\ UNCHANGED <<store, resp>>

\* the answer is built from the locals: the mapping and the pagination of
\* resolvers.py 90-133, or the aggregation of search_service.py 458-573
Respond(t) ==
  /\ inflight[t].pc = "counted"
  /\ Step(t, [inflight[t] EXCEPT
                !.pc = "done",
                !.answer = IF inflight[t].kind = "search"
                           THEN search_movies_answer(inflight[t].req,
                                                     task_results(inflight, t),
                                                     inflight[t].total_count)
                           ELSE dashboard_stats_of(inflight[t].req,
                                                   task_results(inflight, t))])
  /\ UNCHANGED <<store, resp>>

\* the answer reaches the caller and the slot is free again
Return(t) ==
  /\ inflight[t].pc = "done"
  /\ inflight' = [inflight EXCEPT ![t] = IdleTask]
  /\ UNCHANGED <<store, resp>>

\* a document is indexed while no request is in flight
IndexBetweenRequests ==
  /\ inflight = NoTasks
  /\ Len(store) < MaxDocs
  /\ Len(store) < Len(Library)
  /\ ~index_document_raises(Library[Len(store) + 1].data)
  /\ store' = Hset(store, doc_data(Library[Len(store) + 1].id, Library[Len(store) + 1].data))
  /\ UNCHANGED <<resp, inflight>>

NextConcurrent ==
  \/ IndexBetweenRequests
  \/ \E t \in Tasks : StartSearch(t)
  \/ \E t \in Tasks : StartDashboard(t)
  \/ \E t \in Tasks : RunSearch(t)
  \/ \E t \in Tasks : CountTotal(t)
  \/ \E t \in Tasks : FetchAll(t)
  \/ \E t \in Tasks : Respond(t)
  \/ \E t \in Tasks : Return(t)

SpecConcurrent == Init /\ [][NextConcurrent]_vars

\* the answer a request gets when no other request runs with it
AnswerAlone(task) ==
  IF task.kind = "search" THEN search_movies(store, task.req)
  ELSE service_get_dashboard_stats(store, task.req)

\* C20: however the steps of the requests in flight interleave over an
\* unchanged collection, the answer of each request is the answer it gets
\* when it runs alone.
C20_IndependentRequests ==
  \A t \in Tasks : inflight[t].pc = "done" => inflight[t].answer = AnswerAlone(inflight[t])

\* two requests that ran interleaved have both been answered, one a search
\* with movies on its page and one a dashboard over the same collection
C20_Witness ==
  \E t \in Tasks, u \in Tasks :
    /\ inflight[t].pc = "done" /\ inflight[t].overlapped /\ inflight[t].kind = "search"
    /\ inflight[t].answer.status = "ok" /\ inflight[t].answer.movies # <<>>
    /\ inflight[u].pc = "done" /\ inflight[u].overlapped /\ inflight[u].kind = "dashboard"
    /\ inflight[u].answer.total_movies > 0

----------------------------------------------------------------------------
(* One syntax for tag filters *)

\* the request asks for the genre Action and for nothing else
OnlyActionGenre(r) ==
  CASE r.op = "search_movies" -> r.req.search = [NoSearch EXCEPT !.genre = Some(ActionGenre)]
    [] r.op = "search_movies_get" ->
         [r.req EXCEPT !.page = 1, !.page_size = 20, !.fault = "none"]
           = [DefaultGet EXCEPT !.genres = Some(ActionGenre)]
    [] OTHER -> FALSE

\* the text of the clause that follows `* ` in a query sent to the store
SentClause(q) == Flatten(SubSeq(q, 3, Len(q)))

\* C21: for the same field and the same selected value every call site emits
\* the same tag clause text: the clause a request for the genre Action sends
\* is the clause SearchService.build_search_query, advanced_search_movies and
\* the GET handler each build for that genre.
C21_OneTagSyntax ==
  (/\ resp.op \in SearchOps
   /\ OnlyActionGenre(resp)
   /\ resp.calls # <<>>)
  => /\ SentClause(resp.calls[1].query) = Flatten(field_part("genre", Some(ActionGenre))[1])
     /\ SentClause(resp.calls[1].query)
          = Flatten(advanced_tag("genre", Some(<<ActionGenre>>))[1])
     /\ SentClause(resp.calls[1].query) = Flatten(get_tag("genre", Some(<<ActionGenre>>))[1])

----------------------------------------------------------------------------
(* Range filters with no bound, and with the bound 0 *)

\* the clauses a call site has built for the request: the filters list of
\* advanced_search_movies (built before the resolver reads filters.country),
\* and elsewhere the queries that were sent
BuiltClauses(r) ==
  IF r.op = "advanced_search_movies" /\ r.req.filters # None
  THEN <<Join(advanced_filters(r.req.filters[1]), <<" ">>)>>
  ELSE [i \in 1..Len(r.calls) |-> r.calls[i].query]

RangeFields == {"year", "imdb_rating", "popu"}

\* C22: a numeric field for which the request gives neither a minimum nor a
\* maximum has no range clause among the clauses built for the request, also
\* when the request carries a range object with both bounds absent.
C22_NoBoundNoClause ==
  (resp.op \in SearchOps /\ resp.status # "rejected")
  => \A field \in RangeFields :
       (ReqRange(resp, field).lo = None /\ ReqRange(resp, field).hi = None)
       => \A i \in 1..Len(BuiltClauses(resp)) :
            Occurrences(BuiltClauses(resp)[i], <<"@" \o field \o ":[">>) = 0

----------------------------------------------------------------------------
(* Per-year rollups of the dashboards *)

\* the year and the rating (in tenths) a stored record stands for
YearOf(d) == IF ParseInt(HashText(d, "year")) = None THEN 0 ELSE ParseInt(HashText(d, "year"))[1]

RatingOf(d) ==
  IF ParseFloat(HashText(d, "imdb_rating")) = None THEN 0
  ELSE ParseFloat(HashText(d, "imdb_rating"))[1]

RecordsOfYear(year) == SelectSeq(store, LAMBDA d : YearOf(d) = year)

\* the titles of the given records by their own rating, highest first, equal
\* ratings in input order, at most three
TopTitles(records) ==
  LET srt == FirstN(SortDesc([i \in 1..Len(records) |->
                                [k |-> RatingOf(records[i]), x |-> HashText(records[i], "title")]]), 3)
  IN [i \in 1..Len(srt) |-> srt[i].x]

\* C23: over a collection whose numbers all parse, the top titles of each
\* per-year rollup are the at most three titles of that year's own records
\* with the highest ratings, each ranked by its own rating, ties in input
\* order (taken over all records of the year, or over its rated records).
C23_YearTopTitles ==
  (/\ resp.op \in DashboardOps
   /\ resp.status = "ok"
   /\ resp.req.fault = "none"
   /\ \A i \in 1..Len(store) : ~movie_raises(store[i]))
  => \A y \in 1..Len(resp.yearly_stats) :
       LET of_year == RecordsOfYear(resp.yearly_stats[y].year) IN
       \/ resp.yearly_stats[y].top_movies = TopTitles(of_year)
       \/ resp.yearly_stats[y].top_movies
            = TopTitles(SelectSeq(of_year, LAMBDA d : RatingOf(d) > 0))

\* the mean of the given ratings to one decimal, 0.0 for none
MeanRating(ratings) == IF ratings = <<>> THEN 0 ELSE Round1(SumSeq(ratings), Len(ratings))

RatingsOf(records) == [i \in 1..Len(records) |-> RatingOf(records[i])]

----------------------------------------------------------------------------
(* Facet tables *)

\* C25: whenever the collection holds a record with a non-empty genre, an
\* answered search that asked for facets carries a genre facet table with at
\* least one entry, at every call site that computes facets.
C25_FacetsOverFetchedRecords ==
  (/\ resp.op \in {"advanced_search_movies", "post_search"}
   /\ resp.status = "ok"
   /\ resp.req.fault = "none"
   /\ resp.req.include_facets
   /\ \E i \in 1..Len(store) : HashText(store[i], "genre") # <<>>)
  => /\ resp.facets # None
     /\ \E i \in 1..Len(resp.facets[1]) :
          resp.facets[1][i].field = "genre" /\ resp.facets[1][i].values # <<>>

\* the place of the first of the given records whose field f holds v
FirstSeen(records, f, v) ==
  CHOOSE i \in 1..Len(records) :
    /\ HashText(records[i], f) = v
    /\ \A j \in 1..(i - 1) : HashText(records[j], f) # v

\* C26: every facet table lists its entries by count, greatest first, and
\* entries with equal counts in the order their values were first seen among
\* the aggregated records.
C26_FacetTableOrder ==
  (/\ resp.op \in {"advanced_search_movies", "post_search"}
   /\ resp.status = "ok"
   /\ resp.facets # None)
  => \A t \in 1..Len(resp.facets[1]) :
       LET table == resp.facets[1][t]
           records == Aggregated(resp.calls[2]) IN
       \A i, j \in 1..Len(table.values) :
         i < j => \/ table.values[i].count > table.values[j].count
                  \/ /\ table.values[i].count = table.values[j].count
                     /\ FirstSeen(records, table.field, table.values[i].value)
                          < FirstSeen(records, table.field, table.values[j].value)

\* an answer whose genre table holds two values seen once each, and one of
\* whose tables starts with a value counted twice that was first seen after
\* the value listed second
C26_Witness ==
  /\ resp.op = "post_search"
  /\ resp.status = "ok"
  /\ resp.facets # None
  /\ \E t \in 1..Len(resp.facets[1]) :
       /\ resp.facets[1][t].field = "genre"
       /\ \E i, j \in 1..Len(resp.facets[1][t].values) :
            i < j /\ resp.facets[1][t].values[i].count = resp.facets[1][t].values[j].count
  /\ \E t \in 1..Len(resp.facets[1]) :
       LET table == resp.facets[1][t] IN
       /\ Len(table.values) >= 2
       /\ table.values[1].count = 2
       /\ FirstSeen(Aggregated(resp.calls[2]), table.field, table.values[1].value)
            > FirstSeen(Aggregated(resp.calls[2]), table.field, table.values[2].value)

\* the two bounds, as texts, of the first range clause for field in q; no
\* bounds when q has no such clause
ClauseBounds(q, field) ==
  LET heads == {i \in 1..Len(q) : q[i] = "@" \o field \o ":["} IN
  IF heads = {} THEN <<>>
  ELSE LET p == CHOOSE i \in heads : \A j \in heads : i <= j
       IN Split(TakeUntil(SubSeq(q, p + 1, Len(q)), {"]"}), <<" ">>)

\* str(x) of a bound of the field
BoundText(field, x) == IF field = "imdb_rating" THEN FloatChars(x) ELSE IntChars(x)

\* C27: a bound the request supplies for a numeric field is the bound the
\* range clause built for the request carries, also when the bound is 0.
C27_SuppliedBoundCarried ==
  (resp.op \in SearchOps /\ resp.status # "rejected")
  => \A field \in RangeFields : \A i \in 1..Len(BuiltClauses(resp)) :
       LET range == ReqRange(resp, field)
           bounds == ClauseBounds(BuiltClauses(resp)[i], field) IN
       (range.lo # None \/ range.hi # None)
       => /\ Len(bounds) = 2
          /\ range.lo # None => bounds[1] = BoundText(field, range.lo[1])
          /\ range.hi # None => bounds[2] = BoundText(field, range.hi[1])

----------------------------------------------------------------------------
(* Searches served while the ingestion writes: documents are indexed and   *)
(* deleted between the store calls of the request in flight, and a store   *)
(* call may fail on its own.                                               *)

\* a document is indexed, whatever is in flight
IndexWhileServing ==
  \E i \in 1..Len(Library) :
    /\ HasRoom("movie:" \o Library[i].id)
    /\ ~index_document_raises(Library[i].data)
    /\ store' = Hset(store, doc_data(Library[i].id, Library[i].data))
    /\ UNCHANGED <<resp, inflight>>

\* a document is deleted, whatever is in flight
DeleteWhileServing ==
  \E i \in 1..Len(store) :
    /\ store' = delete_document(store, store[i].id)
    /\ UNCHANGED <<resp, inflight>>

\* the count command raises and _get_total_count returns 0
\* (search_service.py 409-411)
CountTotalFails(t) ==
  /\ inflight[t].pc = "searched"
  /\ Step(t, [inflight[t] EXCEPT !.pc = "counted", !.total_count = 0])
  /\ UNCHANGED <<store, resp>>

\* the handlers make their store calls synchronously, so the event loop
\* serves one request at a time, while the ingestion runs in its own process
StartSearchAlone(t) == inflight = NoTasks /\ StartSearch(t)

NextWithWriters ==
  \/ IndexWhileServing
  \/ DeleteWhileServing
  \/ \E t \in Tasks : StartSearchAlone(t)
  \/ \E t \in Tasks : RunSearch(t)
  \/ \E t \in Tasks : CountTotal(t)
  \/ \E t \in Tasks : CountTotalFails(t)
  \/ \E t \in Tasks : Respond(t)
  \/ \E t \in Tasks : Return(t)

SpecWithWriters == Init /\ [][NextWithWriters]_vars

\* C28: every page answered by search_movies holds at most total_count
\* records, however the page fetch and the count query interleave with
\* inserts and deletes, and also when the count query fails.
C28_PageWithinTotal ==
  \A t \in Tasks :
    (/\ inflight[t].pc = "done"
     /\ inflight[t].kind = "search"
     /\ inflight[t].answer.status = "ok")
    => Len(inflight[t].answer.movies) <= inflight[t].answer.total_count

----------------------------------------------------------------------------
(* POST /search against GET /search *)

\* a list of the POST body as the comma-separated query parameter of GET
CommaList(list) == IF list = None THEN None ELSE Some(Join(list[1], <<",">>))

\* the GET request that carries the criteria of a POST request
GetOf(post) ==
  [DefaultGet EXCEPT
     !.q = post.query, !.page = post.page, !.page_size = post.page_size,
     !.sort_field = post.sort_field, !.sort_direction = post.sort_direction,
     !.genres = CommaList(post.genres), !.subgenres = CommaList(post.subgenres),
     !.languages = CommaList(post.languages),
     !.production_houses = CommaList(post.production_houses),
     !.sources = CommaList(post.sources),
     !.min_year = post.min_year, !.max_year = post.max_year,
     !.min_rating = post.min_rating, !.max_rating = post.max_rating,
     !.min_popularity = post.min_popularity, !.max_popularity = post.max_popularity,
     !.fault = post.fault]

\* the page of an answer: its records and its counters
PageOf(answer) ==
  IF answer.status = "ok"
  THEN <<answer.movies, answer.total_count, answer.page, answer.page_size>>
  ELSE <<>>

SamePageAsGet(answer, get) ==
  /\ answer.status = get.status
  /\ answer.calls = get.calls
  /\ PageOf(answer) = PageOf(get)

\* C29: for the same criteria the POST handler issues the query, sort, offset
\* and limit the GET handler issues and returns the same page; a POST request
\* with a filter set completes with a page whenever the GET request does
C29_PostMatchesGet ==
  (/\ resp.op = "post_search"
   /\ resp.status # "rejected"
   /\ resp.req.fault = "none"
   /\ ~resp.req.include_facets)
  => SamePageAsGet(resp, search_movies_get(store, GetOf(resp.req)))

----------------------------------------------------------------------------
(* The genre placeholder of ingestion *)

\* the genre extract_genre_from_path returns, and index_document writes, when
\* no genre is found
GenrePlaceholder == extract_genre_from_path(<<>>)

\* C30: the placeholder genre of ingestion is named in no genre statistic of
\* a dashboard: not in the top-5 genres, not as the top genre, not in the top
\* genres of a year.
C30_PlaceholderGenreNotCounted ==
  (resp.op \in DashboardOps /\ resp.status = "ok")
  => /\ \A i \in 1..Len(resp.top_5_genres) : resp.top_5_genres[i].value # GenrePlaceholder
     /\ resp.top_genre # GenrePlaceholder
     /\ \A y \in 1..Len(resp.yearly_stats) :
          \A j \in 1..Len(resp.yearly_stats[y].top_genres) :
            resp.yearly_stats[y].top_genres[j] # GenrePlaceholder

====
